---- MODULE Spec2Model ----
(***************************************************************************)
(* Model of the osu!API client of MOR4 (OsuWrapper) and of the callers     *)
(* that drive it.                                                          *)
(*                                                                         *)
(* Time unit.  Math.random() yields a real in [0, 1); the model draws it   *)
(* as k / 10000 with k in Randoms.  So that (2^n + random) * 1000 stays an *)
(* integer, every delay of the model is held in tenths of a millisecond:   *)
(* Ms(x) is x milliseconds.                                                *)
(***************************************************************************)
EXTENDS Integers, Sequences, FiniteSets, TLC

(***************************************************************************)
(* Bounds of the model.                                                    *)
(***************************************************************************)
\* consecutive retryable failures (429 / 5xx / fetch failed) explored per call
MaxRetries == 8
\* 401 responses explored per call
Max401 == 2
\* retryable failures explored per getAccessToken run
MaxTokRetries == 1
\* calls a caller makes
MaxCalls == 2
\* minutes the scheduler's clock advances
MaxTicks == 4
\* API calls one invocation of a job's callback makes
MaxJobCalls == 1
\* 401 responses explored per call of a job
MaxJob401 == 1
\* seconds the clock of the expiry-keeping revision advances
MaxNow == 3
\* retryable failures explored per call of the expiry-keeping revision
MaxExpiryRetries == 1

Ms(x) == x * 10

\* values of Math.random() * 10000: 0, and one that Math.round takes to 1000
Randoms == {0, 9996}

\* OSU_API_COOLDOWN_MS of the configuration file, in ms; 0 is "not set"
CfgCooldowns == {0, 250, 2000, 70000}

\* HTTP statuses the remote answers with
Statuses == {200, 401, 403, 404, 429, 503}

\* what `await fetch(...)` produces: a response with a status, or a rejection
\* with a TypeError (statusCode stays -1)
FetchFailed == [status |-> -1, failed |-> TRUE]
Outcomes == [status : Statuses, failed : {FALSE}] \cup {FetchFailed}

\* the callers of the wrapper: a script that awaits one call after the other, and
\* the callbacks of the three scheduled jobs, which share one DatabaseUpdater
Script == "script"
Jobs == {"getNewScores", "removeDuplicateScores", "updateUsers"}
Callers == {Script} \cup Jobs

\* expires_in of the tokens the OAuth endpoint issues, in seconds
Durations == {1, 2}

\* the ids of the scores of the model's osu!API
ScoreIDs == {1, 2}

\* minutes of a day, and the times of day the scheduler is started at
MinutesPerDay == 24 * 60
StartClocks == {23 * 60 + 59, 26}

RECURSIVE Pow2(_)
Pow2(n) == IF n = 0 THEN 1 ELSE 2 * Pow2(n - 1)

RECURSIVE LeadingDigit(_)
LeadingDigit(n) == IF n < 10 THEN n ELSE LeadingDigit(n \div 10)

\* statusCode.toString().startsWith('5')
StartsWith5(s) == s >= 0 /\ LeadingDigit(s) = 5

\* Math.round(Math.random() * 1000), for Math.random() = k / 10000
RoundRandom1000(k) == (k + 5) \div 10

\* MORConfig.OSU_API_COOLDOWN_MS = cfg || 1000
OSU_API_COOLDOWN_MS(cfg) == IF cfg = 0 THEN Ms(1000) ELSE Ms(cfg)

VARIABLES
    cooldownMs,     \* MORConfig.OSU_API_COOLDOWN_MS, read once at startup
    accessToken,    \* OsuWrapper._accessToken
    issued,         \* number of tokens the OAuth endpoint has issued
    pc,             \* per caller: where its API call stands
    delayMs,        \* makeRequest: let delayMs
    retries,        \* makeRequest: let retries
    reqToken,       \* the Authorization token held by request.headers
    tokDelayMs,     \* getAccessToken: let delayMs
    tokRetries,     \* getAccessToken: let retries
    result,         \* how the call ended: none / json / undefined / an error
    callNo,         \* calls the caller has started
    obs,            \* per caller: what was observed of the current call
    rejected,       \* tokens the API has answered 401 to
    resent,         \* a request was sent with a token rejected before
    clock,          \* the scheduler's time of day, in minutes
    ticks,          \* minutes elapsed since JobManager.start()
    scheduled,      \* per job: its schedule has not been cancelled
    cancelledAt,    \* per job: the ticks counted when it was cancelled (-1: it is not)
    running,        \* per job: an invocation of its callback has not settled
    callsLeft,      \* per job: API calls the running invocation has yet to start
    now,            \* Math.floor(new Date().getTime() / 1000)
    accessTokenDuration,     \* OsuWrapper._accessTokenDuration
    accessTokenAcquiryTime,  \* OsuWrapper._accessTokenAcquiryTime
    currentTime,    \* per caller: refreshToken's const currentTime
    conv,           \* convertOsuMods: its argument, a related argument, both results
    tr,             \* osuScoreToMORScore: its argument, its position, its result
    tables,         \* DatabaseManager: the rows of the score tables
    api,            \* the scores the osu!API holds, by score id
    run,            \* DatabaseUpdater: the procedure running and where it stands
    seen,           \* what was observed of the procedures run and the calls made
    users,          \* DatabaseManager: the rows of the USERS table
    queue,          \* the statements removeUserScores has handed to the database
    urun,           \* DatabaseUpdater.updateUsers: where it stands, its locals
    useen           \* what was observed of the operations on users

wrapperVars == <<cooldownMs, accessToken, issued>>
callVars == <<pc, delayMs, retries, reqToken, tokDelayMs, tokRetries, result, callNo>>
histVars == <<obs, rejected, resent>>
jobVars == <<clock, ticks, scheduled, cancelledAt, running, callsLeft>>
expiryVars == <<now, accessTokenDuration, accessTokenAcquiryTime, currentTime>>
userVars == <<users, queue, urun, useen>>
syncVars == <<conv, tr, tables, api, run, seen, userVars>>
otherVars == <<jobVars, expiryVars, syncVars>>
vars == <<wrapperVars, callVars, histVars, jobVars, expiryVars, syncVars>>

\* obs[c], all about the caller's current call:
\*   lastStatus  status of makeRequest's latest response (-1: fetch failed, 0: none yet)
\*   tokStatus   the same for getAccessToken's latest fetch
\*   lastSleep   the delay makeRequest slept last (-1: none yet), lastN: retries then
\*   prevSleep   the delay it slept before that, prevN: retries then
\*   nSleeps     sleeps of makeRequest so far
\*   slept       makeRequest has slept since its latest response
\*   n401        401 responses so far
\*   tokSlept    the delay getAccessToken slept last (-1: none yet), tokN: its
\*               retries then
\*   priorFailed an earlier call of this caller had a retryable failure
\*   stale       the token held when the call started, if it had expired by then
\*               (0: it had not)
NoObs == [lastStatus |-> 0, tokStatus |-> 0, lastSleep |-> -1, lastN |-> 0,
          prevSleep |-> -1, prevN |-> 0, nSleeps |-> 0, slept |-> FALSE,
          n401 |-> 0, tokSlept |-> -1, tokN |-> 0,
          priorFailed |-> FALSE, stale |-> 0]

\* OsuWrapper.build(): one token has been retrieved and stored
InitWrapper ==
    /\ accessToken = 1
    /\ issued = 1
    /\ pc = [c \in Callers |-> "idle"]
    /\ delayMs = [c \in Callers |-> 0]
    /\ retries = [c \in Callers |-> 0]
    /\ reqToken = [c \in Callers |-> 0]
    /\ tokDelayMs = [c \in Callers |-> 0]
    /\ tokRetries = [c \in Callers |-> 0]
    /\ result = [c \in Callers |-> "none"]
    /\ callNo = [c \in Callers |-> 0]
    /\ obs = [c \in Callers |-> NoObs]
    /\ rejected = {}
    /\ resent = FALSE

\* JobManager.start() at time of day t: every job added has a timer
InitJobManager(t) ==
    /\ clock = t
    /\ ticks = 0
    /\ scheduled = [j \in Jobs |-> TRUE]
    /\ cancelledAt = [j \in Jobs |-> -1]
    /\ running = [j \in Jobs |-> FALSE]
    /\ callsLeft = [j \in Jobs |-> 0]

\* the constructor of the revision that keeps the token's expiry: the token
\* lasts d seconds from the time of construction
InitExpiry(d) ==
    /\ now = 0
    /\ accessTokenDuration = d
    /\ accessTokenAcquiryTime = 0
    /\ currentTime = [c \in Callers |-> 0]

\* before anything is converted, stored or run: no conversion made, empty score
\* tables, an osu!API without scores, no procedure of DatabaseUpdater running
NoKey == [ok |-> FALSE, value |-> <<>>]
NoConv == [mods |-> <<>>, other |-> <<>>, relation |-> "none", key |-> NoKey,
           otherKey |-> NoKey]
Missing == [found |-> FALSE]
Idle == [proc |-> "idle", users |-> <<>>, items |-> <<>>, keys |-> <<>>, key |-> <<>>]
\* seen, all about the operation or procedure started last:
\*   runs      operations and procedures started so far
\*   op        its name
\*   outcome   none / running / resolved / rejected (an operation called on its
\*             own); done / returned / TypeError / apiError (a procedure)
\*   cause     what ended a procedure before its loops were through
\*   left      the fetched scores and tracked users it had not got to by then
\*   score, table   an operation's argument and its table
\*   repeated  getNewScores: the (scoreID, table) fetched more than once for a user
\*   dups      removeDuplicateScores: the rows getDuplicateScores returned
\*   lookups   the rows looked up with getScore, each with what came back
\*   stored    updateScores: the rows stored when it was called
\*   wrote     updateScores: the rows looked up and found, each with the MORScore
\*             handed to updateScore
NoSeen == [runs |-> 0, op |-> "none", outcome |-> "none", cause |-> "none", left |-> 0,
           score |-> <<>>, table |-> <<>>,
           repeated |-> {}, dups |-> {}, lookups |-> {}, stored |-> {}, wrote |-> {}]

\* osuScoreToMORScore is not called.  Of tr:
\*   mods, base  osuScore.mods and osuScore.beatmap.difficulty_rating
\*   pc          none / start / lookup / returned / failed
\*   requests    the calls of getBeatmapAttributes made
\*   starRating  [MORScoreKey.STAR_RATING] of the MORScore returned
\*   stars       attributes.star_rating of the answer to getBeatmapAttributes
\*   cause       why it threw: unknownMod / attributesNotFound / apiError
NoTr == [mods |-> <<>>, base |-> 0, pc |-> "none", requests |-> 0, starRating |-> -1,
         stars |-> -1, cause |-> "none"]

\* updateUsers is not running
UIdle == [proc |-> "idle", step |-> "none", dbUsers |-> {}, ids |-> <<>>, i |-> 0,
          modsToScores |-> <<>>, osuUsers |-> <<>>]

\* useen, all about the operation on users or the run of updateUsers started last:
\*   runs      operations and runs started so far
\*   op        its name, userID: the user it was called for
\*   outcome   none / running / resolved / rejected / done / apiError
\*   before    the rows of USERS when it started
\*   scores    the rows of the score tables when it started
\*   replied   updateUsers: the users the osu!API returned
\*   requests  updateUsers: the userIDChunk of every getUsers request sent
NoUSeen == [runs |-> 0, op |-> "none", userID |-> 0, outcome |-> "none",
            before |-> {}, scores |-> {}, replied |-> {}, requests |-> <<>>]

\* no user stored, no statement queued, updateUsers not running
InitNoUsers ==
    /\ users = {}
    /\ queue = <<>>
    /\ urun = UIdle
    /\ useen = NoUSeen

InitSync ==
    /\ InitNoUsers
    /\ conv = NoConv
    /\ tr = NoTr
    /\ tables = {}
    /\ api = [id \in ScoreIDs |-> Missing]
    /\ run = Idle
    /\ seen = NoSeen

Init ==
    /\ cooldownMs \in {OSU_API_COOLDOWN_MS(cfg) : cfg \in CfgCooldowns}
    /\ InitWrapper
    /\ InitJobManager(0)
    /\ InitExpiry(0)
    /\ InitSync

(***************************************************************************)
(* OsuWrapper (revision with the 401 branch)                               *)
(***************************************************************************)

\* buildHeaders(): Authorization: `Bearer ${this._accessToken}`
buildHeaders == accessToken

\* mutant: delayMs kept on the instance instead of being a local of makeRequest
InitialDelay_Carried(c) == IF callNo[c] = 0 THEN cooldownMs ELSE delayMs[c]

\* let delayMs = MORConfig.OSU_API_COOLDOWN_MS, at the top of makeRequest
InitialDelay(c) == cooldownMs

\* mutant: the delay is never capped
Backoff_NoCap(d, n, k) == Ms(Pow2(n) * 1000) + k

\* mutant: the delay slept last is doubled, whatever the number of retries
Backoff_Doubling(d, n, k) ==
    IF d >= Ms(64000)
    THEN Ms(64000 + RoundRandom1000(k))
    ELSE 2 * d + k

\* mutant: the exponent is dropped, only the jitter varies
Backoff_NoGrowth(d, n, k) ==
    IF d >= Ms(64000)
    THEN Ms(64000 + RoundRandom1000(k))
    ELSE Ms(1000) + k

\* the backoff step of makeRequest and getAccessToken:
\*   if (delayMs >= 64000) delayMs = 64000 + Math.round(Math.random() * 1000);
\*   else delayMs = (Math.pow(2, retries) + Math.random()) * 1000;
Backoff(d, n, k) ==
    IF d >= Ms(64000)
    THEN Ms(64000 + RoundRandom1000(k))
    ELSE Ms(Pow2(n) * 1000) + k

\* mutant: 404 is handled like a server error
Branch_NotFoundRetried(o) ==
    IF o.status = 200 THEN "ok"
    ELSE IF o.status = 401 THEN "unauthorized"
    ELSE IF o.status = 404 \/ o.status = 429 \/ StartsWith5(o.status) \/ o.failed
         THEN "backoff"
    ELSE "unhandled"

\* mutant: the final else retries instead of throwing
Branch_UnhandledRetried(o) ==
    IF o.status = 200 THEN "ok"
    ELSE IF o.status = 401 THEN "unauthorized"
    ELSE IF o.status = 404 THEN "notFound"
    ELSE "backoff"

\* the if / else-if chain of makeRequest on (statusCode, fetchFailed)
Branch(o) ==
    IF o.status = 200 THEN "ok"
    ELSE IF o.status = 401 THEN "unauthorized"
    ELSE IF o.status = 404 THEN "notFound"
    ELSE IF o.status = 429 \/ StartsWith5(o.status) \/ o.failed THEN "backoff"
    ELSE "unhandled"

\* the if / else-if chain of getAccessToken on statusCode
TokenBranch(s) ==
    IF s = 200 THEN "ok"
    ELSE IF s = 429 \/ StartsWith5(s) THEN "backoff"
    ELSE "unhandled"

\* getUsers / getUser / getScore / getUserScores / getBeatmap /
\* getBeatmapAttributes: build the request with the current token and enter
\* makeRequest (max bounds the calls of caller c)
Call(c, max) ==
    /\ pc[c] \in {"idle", "returned"}
    /\ callNo[c] < max
    /\ callNo' = [callNo EXCEPT ![c] = @ + 1]
    /\ reqToken' = [reqToken EXCEPT ![c] = buildHeaders]
    /\ delayMs' = [delayMs EXCEPT ![c] = InitialDelay(c)]
    /\ retries' = [retries EXCEPT ![c] = 0]
    /\ result' = [result EXCEPT ![c] = "none"]
    /\ pc' = [pc EXCEPT ![c] = "sleep"]
    /\ obs' = [obs EXCEPT ![c] =
                   [NoObs EXCEPT !.priorFailed = obs[c].priorFailed \/ retries[c] > 0]]
    /\ UNCHANGED <<wrapperVars, tokDelayMs, tokRetries, rejected, resent>>

\* a call made by the script
StartCall(c) ==
    /\ Call(c, MaxCalls)
    /\ UNCHANGED otherVars

\* await sleep(delayMs); then fetch(url, request) is issued
Sleep(c) ==
    /\ pc[c] = "sleep"
    /\ pc' = [pc EXCEPT ![c] = "fetch"]
    /\ obs' = [obs EXCEPT ![c].prevSleep = obs[c].lastSleep,
                          ![c].prevN = obs[c].lastN,
                          ![c].lastSleep = delayMs[c],
                          ![c].lastN = retries[c],
                          ![c].nSleeps = @ + 1,
                          ![c].slept = TRUE]
    /\ resent' = (resent \/ reqToken[c] \in rejected)
    /\ UNCHANGED <<wrapperVars, delayMs, retries, reqToken, tokDelayMs, tokRetries,
                   result, callNo, rejected, otherVars>>

Seen(c, o) == [obs EXCEPT ![c].lastStatus = o.status, ![c].slept = FALSE]

\* statusCode === 200: return response.json()
OnOK(c) ==
    \E o \in Outcomes :
        /\ pc[c] = "fetch"
        /\ Branch(o) = "ok"
        /\ pc' = [pc EXCEPT ![c] = "returned"]
        /\ result' = [result EXCEPT ![c] = "json"]
        /\ obs' = Seen(c, o)
        /\ UNCHANGED <<wrapperVars, delayMs, retries, reqToken, tokDelayMs, tokRetries,
                       callNo, rejected, resent, otherVars>>

\* statusCode === 401: this._accessToken = await OsuWrapper.getAccessToken()
\* (getAccessToken starts: its own delayMs and retries)
OnUnauthorized(c) ==
    \E o \in Outcomes :
        /\ pc[c] = "fetch"
        /\ Branch(o) = "unauthorized"
        /\ obs[c].n401 < Max401
        /\ pc' = [pc EXCEPT ![c] = "tokSleep"]
        /\ tokDelayMs' = [tokDelayMs EXCEPT ![c] = InitialDelay(c)]
        /\ tokRetries' = [tokRetries EXCEPT ![c] = 0]
        /\ obs' = [Seen(c, o) EXCEPT ![c].n401 = @ + 1]
        /\ rejected' = rejected \cup {reqToken[c]}
        /\ UNCHANGED <<wrapperVars, delayMs, retries, reqToken, result, callNo, resent,
                       otherVars>>

\* statusCode === 404: return undefined
OnNotFound(c) ==
    \E o \in Outcomes :
        /\ pc[c] = "fetch"
        /\ Branch(o) = "notFound"
        /\ pc' = [pc EXCEPT ![c] = "returned"]
        /\ result' = [result EXCEPT ![c] = "undefined"]
        /\ obs' = Seen(c, o)
        /\ UNCHANGED <<wrapperVars, delayMs, retries, reqToken, tokDelayMs, tokRetries,
                       callNo, rejected, resent, otherVars>>

\* 429 / 5xx / fetch failed: new delayMs, ++retries, next iteration
OnBackoff(c) ==
    \E o \in Outcomes, k \in Randoms :
        /\ pc[c] = "fetch"
        /\ Branch(o) = "backoff"
        /\ retries[c] < MaxRetries
        /\ delayMs' = [delayMs EXCEPT ![c] = Backoff(delayMs[c], retries[c], k)]
        /\ retries' = [retries EXCEPT ![c] = @ + 1]
        /\ pc' = [pc EXCEPT ![c] = "sleep"]
        /\ obs' = Seen(c, o)
        /\ UNCHANGED <<wrapperVars, reqToken, tokDelayMs, tokRetries, result, callNo,
                       rejected, resent, otherVars>>

\* else: throw new RangeError(...)
OnUnhandled(c) ==
    \E o \in Outcomes :
        /\ pc[c] = "fetch"
        /\ Branch(o) = "unhandled"
        /\ pc' = [pc EXCEPT ![c] = "failed"]
        /\ result' = [result EXCEPT ![c] = "RangeError"]
        /\ obs' = Seen(c, o)
        /\ UNCHANGED <<wrapperVars, delayMs, retries, reqToken, tokDelayMs, tokRetries,
                       callNo, rejected, resent, otherVars>>

\* getAccessToken: await sleep(delayMs); then fetch(TOKEN_URL, TOKEN_REQUEST)
TokSleep(c) ==
    /\ pc[c] = "tokSleep"
    /\ pc' = [pc EXCEPT ![c] = "tokFetch"]
    /\ obs' = [obs EXCEPT ![c].tokSlept = tokDelayMs[c], ![c].tokN = tokRetries[c]]
    /\ UNCHANGED <<wrapperVars, delayMs, retries, reqToken, tokDelayMs, tokRetries,
                   result, callNo, rejected, resent, otherVars>>

\* getAccessToken returns token.access_token; back in makeRequest:
\*   this._accessToken = <it>; request.headers = this.buildHeaders();
\* and the loop goes to its next iteration
TokOK(c) ==
    \E s \in Statuses :
        /\ pc[c] = "tokFetch"
        /\ TokenBranch(s) = "ok"
        /\ issued' = issued + 1
        /\ accessToken' = issued + 1
        /\ reqToken' = [reqToken EXCEPT ![c] = issued + 1]
        /\ pc' = [pc EXCEPT ![c] = "sleep"]
        /\ obs' = [obs EXCEPT ![c].tokStatus = s]
        /\ UNCHANGED <<cooldownMs, delayMs, retries, tokDelayMs, tokRetries, result,
                       callNo, rejected, resent, otherVars>>

\* getAccessToken: 429 / 5xx
TokBackoff(c) ==
    \E s \in Statuses, k \in Randoms :
        /\ pc[c] = "tokFetch"
        /\ TokenBranch(s) = "backoff"
        /\ tokRetries[c] < MaxTokRetries
        /\ tokDelayMs' = [tokDelayMs EXCEPT ![c] = Backoff(tokDelayMs[c], tokRetries[c], k)]
        /\ tokRetries' = [tokRetries EXCEPT ![c] = @ + 1]
        /\ pc' = [pc EXCEPT ![c] = "tokSleep"]
        /\ obs' = [obs EXCEPT ![c].tokStatus = s]
        /\ UNCHANGED <<wrapperVars, delayMs, retries, reqToken, result, callNo,
                       rejected, resent, otherVars>>

\* getAccessToken: throw new RangeError(...); it leaves makeRequest too
TokUnhandled(c) ==
    \E s \in Statuses :
        /\ pc[c] = "tokFetch"
        /\ TokenBranch(s) = "unhandled"
        /\ pc' = [pc EXCEPT ![c] = "failed"]
        /\ result' = [result EXCEPT ![c] = "RangeError"]
        /\ obs' = [obs EXCEPT ![c].tokStatus = s]
        /\ UNCHANGED <<wrapperVars, delayMs, retries, reqToken, tokDelayMs, tokRetries,
                       callNo, rejected, resent, otherVars>>

\* getAccessToken: fetch rejects; nothing catches it
TokFetchFailed(c) ==
    /\ pc[c] = "tokFetch"
    /\ pc' = [pc EXCEPT ![c] = "failed"]
    /\ result' = [result EXCEPT ![c] = "TypeError"]
    /\ obs' = [obs EXCEPT ![c].tokStatus = FetchFailed.status]
    /\ UNCHANGED <<wrapperVars, delayMs, retries, reqToken, tokDelayMs, tokRetries,
                   callNo, rejected, resent, otherVars>>

makeRequest(c) ==
    \/ Sleep(c)
    \/ OnOK(c)
    \/ OnUnauthorized(c)
    \/ OnNotFound(c)
    \/ OnBackoff(c)
    \/ OnUnhandled(c)

getAccessToken(c) ==
    \/ TokSleep(c)
    \/ TokOK(c)
    \/ TokBackoff(c)
    \/ TokUnhandled(c)
    \/ TokFetchFailed(c)

(***************************************************************************)
(* A sequential caller: one call of the wrapper after the other            *)
(***************************************************************************)
Next ==
    \/ StartCall(Script)
    \/ makeRequest(Script)
    \/ getAccessToken(Script)

Spec == Init /\ [][Next]_vars

(***************************************************************************)
(* OsuWrapper (revision that keeps the token's expiry; it has no 401       *)
(* branch, makeRequest is static and does not catch a rejected fetch)      *)
(***************************************************************************)

\* the if / else-if chain of this revision's makeRequest on statusCode
ExpiryBranch(s) ==
    IF s = 200 THEN "ok"
    ELSE IF s = 404 THEN "notFound"
    ELSE IF s = 429 \/ StartsWith5(s) THEN "backoff"
    ELSE "unhandled"

\* refreshToken: currentTime > this._accessTokenAcquiryTime + this._accessTokenDuration
Expired(t) == t > accessTokenAcquiryTime + accessTokenDuration

\* a second passes
Elapse ==
    /\ now < MaxNow
    /\ now' = now + 1
    /\ UNCHANGED <<wrapperVars, callVars, histVars, jobVars, syncVars, accessTokenDuration,
                   accessTokenAcquiryTime, currentTime>>

\* getUsers / getUser / getScore / getUserScores / getBeatmap /
\* getBeatmapAttributes of this revision:
\*   const request = { ..., headers: this.buildHeaders() };
\*   await this.refreshToken();                 (starts here, with currentTime)
\*   return OsuWrapper.makeRequest(url, request);
ExpiryCall(c) ==
    /\ pc[c] \in {"idle", "returned"}
    /\ callNo[c] < MaxCalls
    /\ callNo' = [callNo EXCEPT ![c] = @ + 1]
    /\ reqToken' = [reqToken EXCEPT ![c] = buildHeaders]
    /\ currentTime' = [currentTime EXCEPT ![c] = now]
    /\ result' = [result EXCEPT ![c] = "none"]
    /\ obs' = [obs EXCEPT ![c] =
                   [NoObs EXCEPT !.stale = IF Expired(now) THEN accessToken ELSE 0]]
    /\ IF Expired(now)
       THEN /\ pc' = [pc EXCEPT ![c] = "refSleep"]
            /\ tokDelayMs' = [tokDelayMs EXCEPT ![c] = InitialDelay(c)]
            /\ tokRetries' = [tokRetries EXCEPT ![c] = 0]
            /\ UNCHANGED <<delayMs, retries>>
       ELSE /\ pc' = [pc EXCEPT ![c] = "sleep"]
            /\ delayMs' = [delayMs EXCEPT ![c] = InitialDelay(c)]
            /\ retries' = [retries EXCEPT ![c] = 0]
            /\ UNCHANGED <<tokDelayMs, tokRetries>>
    /\ UNCHANGED <<wrapperVars, rejected, resent, jobVars, syncVars, now, accessTokenDuration,
                   accessTokenAcquiryTime>>

\* refreshToken's makeRequest(TOKEN_URL, TOKEN_REQUEST): await sleep(delayMs),
\* then the fetch is issued
RefreshSleep(c) ==
    /\ pc[c] = "refSleep"
    /\ pc' = [pc EXCEPT ![c] = "refFetch"]
    /\ obs' = [obs EXCEPT ![c].tokSlept = tokDelayMs[c], ![c].tokN = tokRetries[c]]
    /\ UNCHANGED <<wrapperVars, delayMs, retries, reqToken, tokDelayMs, tokRetries,
                   result, callNo, rejected, resent, otherVars>>

\* the token request is answered 200: refreshToken stores the token, its
\* expires_in and currentTime; then makeRequest(url, request) starts
RefreshOK(c) ==
    \E s \in Statuses, d \in Durations :
        /\ pc[c] = "refFetch"
        /\ ExpiryBranch(s) = "ok"
        /\ issued' = issued + 1
        /\ accessToken' = issued + 1
        /\ accessTokenDuration' = d
        /\ accessTokenAcquiryTime' = currentTime[c]
        /\ pc' = [pc EXCEPT ![c] = "sleep"]
        /\ delayMs' = [delayMs EXCEPT ![c] = InitialDelay(c)]
        /\ retries' = [retries EXCEPT ![c] = 0]
        /\ obs' = [obs EXCEPT ![c].tokStatus = s]
        /\ UNCHANGED <<cooldownMs, reqToken, tokDelayMs, tokRetries, result, callNo,
                       rejected, resent, jobVars, syncVars, now, currentTime>>

\* the token request is answered 404: makeRequest returns undefined and
\* refreshToken throws a TokenError
RefreshNotFound(c) ==
    \E s \in Statuses :
        /\ pc[c] = "refFetch"
        /\ ExpiryBranch(s) = "notFound"
        /\ pc' = [pc EXCEPT ![c] = "failed"]
        /\ result' = [result EXCEPT ![c] = "TokenError"]
        /\ obs' = [obs EXCEPT ![c].tokStatus = s]
        /\ UNCHANGED <<wrapperVars, delayMs, retries, reqToken, tokDelayMs, tokRetries,
                       callNo, rejected, resent, otherVars>>

\* the token request is answered 429 / 5xx
RefreshBackoff(c) ==
    \E s \in Statuses, k \in Randoms :
        /\ pc[c] = "refFetch"
        /\ ExpiryBranch(s) = "backoff"
        /\ tokRetries[c] < MaxTokRetries
        /\ tokDelayMs' = [tokDelayMs EXCEPT ![c] = Backoff(tokDelayMs[c], tokRetries[c], k)]
        /\ tokRetries' = [tokRetries EXCEPT ![c] = @ + 1]
        /\ pc' = [pc EXCEPT ![c] = "refSleep"]
        /\ obs' = [obs EXCEPT ![c].tokStatus = s]
        /\ UNCHANGED <<wrapperVars, delayMs, retries, reqToken, result, callNo,
                       rejected, resent, otherVars>>

\* the token request is answered anything else: RangeError
RefreshUnhandled(c) ==
    \E s \in Statuses :
        /\ pc[c] = "refFetch"
        /\ ExpiryBranch(s) = "unhandled"
        /\ pc' = [pc EXCEPT ![c] = "failed"]
        /\ result' = [result EXCEPT ![c] = "RangeError"]
        /\ obs' = [obs EXCEPT ![c].tokStatus = s]
        /\ UNCHANGED <<wrapperVars, delayMs, retries, reqToken, tokDelayMs, tokRetries,
                       callNo, rejected, resent, otherVars>>

\* how this revision's makeRequest(url, request) leaves its loop on response
\* status s: with pc p and result r
ExpiryEnd(c, s, p, r) ==
    /\ pc' = [pc EXCEPT ![c] = p]
    /\ result' = [result EXCEPT ![c] = r]
    /\ obs' = [obs EXCEPT ![c].lastStatus = s, ![c].slept = FALSE]
    /\ UNCHANGED <<wrapperVars, delayMs, retries, reqToken, tokDelayMs, tokRetries,
                   callNo, rejected, resent, otherVars>>

\* statusCode === 200: return response.json()
ExpiryOnOK(c) ==
    \E s \in Statuses :
        /\ pc[c] = "fetch"
        /\ ExpiryBranch(s) = "ok"
        /\ ExpiryEnd(c, s, "returned", "json")

\* statusCode === 404: return undefined
ExpiryOnNotFound(c) ==
    \E s \in Statuses :
        /\ pc[c] = "fetch"
        /\ ExpiryBranch(s) = "notFound"
        /\ ExpiryEnd(c, s, "returned", "undefined")

\* 429 / 5xx: new delayMs, ++retries, next iteration
ExpiryOnBackoff(c) ==
    \E s \in Statuses, k \in Randoms :
        /\ pc[c] = "fetch"
        /\ ExpiryBranch(s) = "backoff"
        /\ retries[c] < MaxExpiryRetries
        /\ delayMs' = [delayMs EXCEPT ![c] = Backoff(delayMs[c], retries[c], k)]
        /\ retries' = [retries EXCEPT ![c] = @ + 1]
        /\ pc' = [pc EXCEPT ![c] = "sleep"]
        /\ obs' = [obs EXCEPT ![c].lastStatus = s, ![c].slept = FALSE]
        /\ UNCHANGED <<wrapperVars, reqToken, tokDelayMs, tokRetries, result, callNo,
                       rejected, resent, otherVars>>

\* else (401 too): throw new RangeError(...)
ExpiryOnUnhandled(c) ==
    \E s \in Statuses :
        /\ pc[c] = "fetch"
        /\ ExpiryBranch(s) = "unhandled"
        /\ ExpiryEnd(c, s, "failed", "RangeError")

\* `await fetch(...)` rejects, in refreshToken's makeRequest or in the call's:
\* nothing catches the TypeError
ExpiryFetchFailed(c) ==
    /\ pc[c] \in {"refFetch", "fetch"}
    /\ pc' = [pc EXCEPT ![c] = "failed"]
    /\ result' = [result EXCEPT ![c] = "TypeError"]
    /\ obs' = [obs EXCEPT ![c].slept = FALSE]
    /\ UNCHANGED <<wrapperVars, delayMs, retries, reqToken, tokDelayMs, tokRetries,
                   callNo, rejected, resent, otherVars>>

\* a script on this revision: the wrapper was built at time 0 with a token that
\* lasts d seconds; one call after the other while time passes
InitExpiryScript ==
    /\ cooldownMs = OSU_API_COOLDOWN_MS(0)
    /\ InitWrapper
    /\ InitJobManager(0)
    /\ \E d \in Durations : InitExpiry(d)
    /\ InitSync

NextExpiry ==
    \/ Elapse
    \/ ExpiryCall(Script)
    \/ RefreshSleep(Script)
    \/ RefreshOK(Script)
    \/ RefreshNotFound(Script)
    \/ RefreshBackoff(Script)
    \/ RefreshUnhandled(Script)
    \/ Sleep(Script)
    \/ ExpiryOnOK(Script)
    \/ ExpiryOnNotFound(Script)
    \/ ExpiryOnBackoff(Script)
    \/ ExpiryOnUnhandled(Script)
    \/ ExpiryFetchFailed(Script)

SpecExpiry == InitExpiryScript /\ [][NextExpiry]_vars

\* C1 (as claimed): when the held token had expired at the start of a call, the
\* request that call sends carries the token its refresh obtained, never the
\* expired one.
C1_ExpiredTokenNeverSent ==
    \A c \in Callers :
        (pc[c] = "fetch" /\ obs[c].stale # 0) =>
            reqToken[c] = accessToken /\ reqToken[c] # obs[c].stale

(***************************************************************************)
(* JobManager and the three jobs registered by the entry point             *)
(***************************************************************************)

\* the cron rules of the entry point, on the time of day t (in minutes):
\*   removeDuplicateScores '0 0 * * *', getNewScores '30 */1 * * *',
\*   updateUsers '*/3 * * * *'
Rule(j, t) ==
    CASE j = "removeDuplicateScores" -> t % 60 = 0 /\ t \div 60 = 0
      [] j = "getNewScores" -> t % 60 = 30
      [] j = "updateUsers" -> (t % 60) % 3 = 0

\* mutant: a cancelled timer fires on
Due_Uncancelled(t) == {j \in Jobs : Rule(j, t) /\ ~running[j]}

\* the jobs whose timer fires at time of day t.  An invocation is started for a
\* job only when its previous one has settled; that bounds the model (the timer
\* of the code does not wait).
Due(t) == {j \in Jobs : scheduled[j] /\ Rule(j, t) /\ ~running[j]}

\* the numbers of API calls one invocation makes
CallCounts == 1 .. MaxJobCalls

\* a minute passes; scheduleJob invokes the callback of every job that is due.
\* Each callback (dbu.getNewScores(), dbu.removeDuplicateScores(),
\* dbu.updateUsers()) awaits some number of calls of the shared OsuWrapper.
Tick ==
    /\ ticks < MaxTicks
    /\ ticks' = ticks + 1
    /\ clock' = (clock + 1) % MinutesPerDay
    /\ \E n \in [Due(clock') -> CallCounts] :
           /\ running' = [j \in Jobs |-> running[j] \/ j \in Due(clock')]
           /\ callsLeft' = [j \in Jobs |-> IF j \in Due(clock') THEN n[j] ELSE callsLeft[j]]
    /\ UNCHANGED <<wrapperVars, callVars, histVars, scheduled, cancelledAt, expiryVars, syncVars>>

\* the callback of job j makes its next call: this._osu.getUserScores(...),
\* this._osu.getScore(...), this._osu.getUsers(...)
JobCall(j) ==
    /\ running[j]
    /\ callsLeft[j] > 0
    /\ Call(j, MaxJobCalls)
    /\ callsLeft' = [callsLeft EXCEPT ![j] = @ - 1]
    /\ UNCHANGED <<clock, ticks, scheduled, cancelledAt, running, expiryVars, syncVars>>

\* a call of job j is answered 401 (explored MaxJob401 times per call)
JobOnUnauthorized(j) ==
    /\ obs[j].n401 < MaxJob401
    /\ OnUnauthorized(j)

\* the callback's promise resolves
JobDone(j) ==
    /\ running[j]
    /\ callsLeft[j] = 0
    /\ pc[j] = "returned"
    /\ running' = [running EXCEPT ![j] = FALSE]
    /\ pc' = [pc EXCEPT ![j] = "idle"]
    /\ UNCHANGED <<wrapperVars, delayMs, retries, reqToken, tokDelayMs, tokRetries,
                   result, callNo, histVars, clock, ticks, scheduled, cancelledAt, callsLeft,
                   expiryVars, syncVars>>

\* the callback's promise rejects with the error of the call:
\*   scheduledJob.on('error', ...) => scheduledJob.cancel()
JobError(j) ==
    /\ running[j]
    /\ pc[j] = "failed"
    /\ scheduled' = [scheduled EXCEPT ![j] = FALSE]
    /\ cancelledAt' = [cancelledAt EXCEPT ![j] = ticks]
    /\ running' = [running EXCEPT ![j] = FALSE]
    /\ callsLeft' = [callsLeft EXCEPT ![j] = 0]
    /\ pc' = [pc EXCEPT ![j] = "idle"]
    /\ UNCHANGED <<wrapperVars, delayMs, retries, reqToken, tokDelayMs, tokRetries,
                   result, callNo, histVars, clock, ticks, expiryVars, syncVars>>

\* the entry point: the wrapper is built, the three jobs are added and started.
\* The remote is taken to answer the jobs' requests with 200, 401, 404 or a
\* status without a branch, and the token requests with 200.
InitJobs ==
    /\ cooldownMs = OSU_API_COOLDOWN_MS(0)
    /\ InitWrapper
    /\ \E t \in StartClocks : InitJobManager(t)
    /\ InitExpiry(0)
    /\ InitSync

NextJobs ==
    \/ Tick
    \/ \E j \in Jobs :
        \/ JobCall(j)
        \/ Sleep(j)
        \/ OnOK(j)
        \/ JobOnUnauthorized(j)
        \/ OnNotFound(j)
        \/ OnUnhandled(j)
        \/ TokSleep(j)
        \/ TokOK(j)
        \/ JobDone(j)
        \/ JobError(j)

SpecJobs == InitJobs /\ [][NextJobs]_vars

\* a request of caller c is outstanding at the remote
InFlight(c) == pc[c] \in {"fetch", "tokFetch"}

\* C3 (as claimed): once a 401 has made the wrapper refresh its token, the
\* rejected token is never sent again.
C3_RejectedTokenNeverResent == ~resent

\* C10 (as claimed): at most one request to the external API is in flight at
\* any time.
C10_OneRequestInFlight ==
    Cardinality({c \in Callers : InFlight(c)}) <= 1

(***************************************************************************)
(* Properties of makeRequest, one call at a time (Spec)                    *)
(***************************************************************************)
Ended(c) == pc[c] \in {"returned", "failed"}

\* a 429, a 5xx or a transport failure
Transient(s) == s = 429 \/ (s >= 500 /\ s <= 599) \/ s = FetchFailed.status

\* a status makeRequest has no branch for
Unlisted(s) == s > 0 /\ s \notin {200, 401, 404, 429} /\ ~(s >= 500 /\ s <= 599)

\* C2 (as claimed): within one makeRequest call a second 401 response makes the
\* call fail; the token is refreshed at most once per call.
C2_Second401IsFatal ==
    \A c \in Callers : obs[c].n401 >= 2 => pc[c] = "failed"

\* C4: a 404 response ends the call at once with undefined: no further attempt,
\* no error, and delayMs is still the delay slept before that attempt.
C4_NotFoundReturnsUndefined ==
    \A c \in Callers :
        obs[c].lastStatus = 404 =>
            /\ pc[c] = "returned"
            /\ result[c] = "undefined"
            /\ delayMs[c] = obs[c].lastSleep

\* C4 witness: a 404 received after earlier retryable failures of the same call
C4_Witness ==
    \E c \in Callers : obs[c].lastStatus = 404 /\ retries[c] >= 2 /\ pc[c] = "returned"

\* C5 (as claimed): a call that has ended did not end on a 429, a 5xx or a
\* transport failure, neither of its own fetch nor of the token fetch it made.
C5_NeverEndsOnTransient ==
    \A c \in Callers :
        Ended(c) => ~Transient(obs[c].lastStatus) /\ ~Transient(obs[c].tokStatus)

\* C6: a response status other than 200, 401, 404, 429 and 5xx makes the call
\* fail with a RangeError on that attempt, and no attempt follows it.
C6_UnlistedStatusFails ==
    \A c \in Callers :
        Unlisted(obs[c].lastStatus) => pc[c] = "failed" /\ result[c] = "RangeError"

\* C6 witness: an unlisted status received after an earlier retryable failure
C6_Witness ==
    \E c \in Callers : obs[c].lastStatus = 403 /\ retries[c] >= 1 /\ pc[c] = "failed"

\* C7 (as claimed): no delay slept inside a call exceeds 64000 + 1000 ms.
C7_NoSleepAboveCeiling ==
    \A c \in Callers :
        /\ obs[c].lastSleep <= Ms(64000 + 1000)
        /\ obs[c].tokSlept <= Ms(64000 + 1000)

\* C7 (amended): a delay slept after a retryable failure never exceeds
\* 64000 + 1000 ms; a sleep before the first such failure (of makeRequest, or of
\* the getAccessToken run it started) lasts the configured base cooldown.
C7_SleepAboveCeilingIsCooldown ==
    \A c \in Callers :
        /\ obs[c].lastSleep > Ms(64000 + 1000) =>
               obs[c].lastSleep = cooldownMs /\ obs[c].lastN = 0
        /\ obs[c].tokSlept > Ms(64000 + 1000) =>
               obs[c].tokSlept = cooldownMs /\ obs[c].tokN = 0

\* C7 witness: from the default cooldown the call has slept the ceiling itself
C7_Witness ==
    \E c \in Callers :
        /\ cooldownMs = Ms(1000)
        /\ obs[c].lastSleep = Ms(64000 + 1000)
        /\ obs[c].lastN >= 8

C9_SleepBeforeEveryFetch ==
    \A c \in Callers :
        /\ pc[c] = "fetch" => obs[c].slept /\ obs[c].lastSleep = delayMs[c]
        /\ obs[c].nSleeps = 1 => obs[c].lastSleep = cooldownMs

\* C9 witness: the first request of a second call is in flight, after a first
\* call that went through retryable failures
C9_Witness ==
    \E c \in Callers :
        /\ callNo[c] = 2 /\ obs[c].priorFailed
        /\ pc[c] = "fetch" /\ obs[c].nSleeps = 1

(***************************************************************************)
(* util/Common: convertOsuMods.  A string is the sequence of its           *)
(* characters, a modifier token a string of two characters.                *)
(***************************************************************************)

\* longest list of modifier tokens converted
MaxMods == 2

\* enum OsuMod
OsuMod == [EZ |-> <<"E", "Z">>, NF |-> <<"N", "F">>, HT |-> <<"H", "T">>,
           SO |-> <<"S", "O">>, HR |-> <<"H", "R">>, SD |-> <<"S", "D">>,
           PF |-> <<"P", "F">>, DT |-> <<"D", "T">>, NC |-> <<"N", "C">>,
           HD |-> <<"H", "D">>, FL |-> <<"F", "L">>]

\* the token 'NM' that sortOsuMods filters out
NM == <<"N", "M">>

\* modifiers the osu!API reports that enum OsuMod does not list: relax, touch device
RX == <<"R", "X">>
TD == <<"T", "D">>

\* the tokens the lists to convert are made of
ModTokens == {OsuMod[k] : k \in DOMAIN OsuMod} \cup {NM, RX, TD}

\* the lists to convert
ModLists == UNION {[1 .. n -> ModTokens] : n \in 0 .. MaxMods}

\* mods.join().replaceAll(',', ''): the tokens one after the other
RECURSIVE Join(_)
Join(toks) == IF toks = <<>> THEN <<>> ELSE Head(toks) \o Join(Tail(toks))

\* enum MORMod: the values of the 35 partition keys (and 'NM')
MORMod ==
    LET m == OsuMod
    IN  {NM, m.DT, m.HR, m.HD, m.EZ, m.HT, m.FL,
         Join(<<m.HD, m.DT>>), Join(<<m.HR, m.DT>>), Join(<<m.EZ, m.DT>>),
         Join(<<m.DT, m.FL>>), Join(<<m.EZ, m.HT>>), Join(<<m.HD, m.HR>>),
         Join(<<m.HD, m.HT>>), Join(<<m.EZ, m.HD>>), Join(<<m.HR, m.HT>>),
         Join(<<m.EZ, m.FL>>), Join(<<m.HR, m.FL>>), Join(<<m.HT, m.FL>>),
         Join(<<m.HD, m.FL>>),
         Join(<<m.HD, m.HR, m.DT>>), Join(<<m.HD, m.DT, m.FL>>),
         Join(<<m.EZ, m.HD, m.DT>>), Join(<<m.HR, m.DT, m.FL>>),
         Join(<<m.EZ, m.DT, m.FL>>), Join(<<m.HD, m.HT, m.FL>>),
         Join(<<m.HD, m.HR, m.HT>>), Join(<<m.HR, m.HT, m.FL>>),
         Join(<<m.EZ, m.HD, m.HT>>), Join(<<m.EZ, m.HT, m.FL>>),
         Join(<<m.EZ, m.HD, m.FL>>), Join(<<m.HD, m.HR, m.FL>>),
         Join(<<m.HD, m.HR, m.DT, m.FL>>), Join(<<m.EZ, m.HD, m.DT, m.FL>>),
         Join(<<m.EZ, m.HD, m.HT, m.FL>>), Join(<<m.HD, m.HR, m.HT, m.FL>>)}

\* a thrown TypeError, as the outcome of a conversion
TypeError == [ok |-> FALSE, value |-> <<"TypeError">>]

\* mutant: the string is returned whether or not MORMod has it
stringToMORMod_Unchecked(str) == [ok |-> TRUE, value |-> str]

\* stringToMORMod: the member of MORMod equal to str, or a TypeError
stringToMORMod(str) ==
    IF str \in MORMod THEN [ok |-> TRUE, value |-> str] ELSE TypeError

\* Array.prototype.indexOf: the 0-based index of the first x, or -1
indexOf(arr, x) ==
    IF \E i \in 1 .. Len(arr) : arr[i] = x
    THEN (CHOOSE i \in 1 .. Len(arr) : arr[i] = x /\ \A j \in 1 .. i - 1 : arr[j] # x) - 1
    ELSE -1

\* mutant: HD comes before EZ
modOrder_Swapped ==
    LET m == OsuMod
    IN  <<m.NF, m.HD, m.EZ, m.HR, m.SD, m.DT, m.NC, m.HT, m.FL, m.SO, m.PF>>

\* sortOsuMods: const modOrder
modOrder ==
    LET m == OsuMod
    IN  <<m.NF, m.EZ, m.HD, m.HR, m.SD, m.DT, m.NC, m.HT, m.FL, m.SO, m.PF>>

\* the comparator sortOsuMods passes to sort
Compare(a, b) ==
    LET aIdx == indexOf(modOrder, a)
        bIdx == indexOf(modOrder, b)
    IN  IF aIdx = -1 /\ bIdx = -1 THEN 0
        ELSE IF aIdx = -1 THEN 1
        ELSE IF bIdx = -1 THEN -1
        ELSE aIdx - bIdx

\* Array.prototype.sort is stable: x goes behind every element that does not
\* compare greater than it
RECURSIVE InsertSorted(_, _)
InsertSorted(sorted, x) ==
    IF sorted = <<>> THEN <<x>>
    ELSE IF Compare(Head(sorted), x) > 0 THEN <<x>> \o sorted
    ELSE <<Head(sorted)>> \o InsertSorted(Tail(sorted), x)

RECURSIVE Sort(_)
Sort(arr) ==
    IF arr = <<>> THEN <<>>
    ELSE InsertSorted(Sort(SubSeq(arr, 1, Len(arr) - 1)), arr[Len(arr)])

\* mutant: the tokens are left in the order given
sortOsuMods_Unsorted(mods) == SelectSeq(mods, LAMBDA mod : mod # NM)

\* sortOsuMods: 'NM' filtered out, the rest sorted by modOrder
sortOsuMods(mods) == Sort(SelectSeq(mods, LAMBDA mod : mod # NM))

\* mutant: nothing is replaced
replace_Nothing(str, pattern, replacement) == str

\* String.prototype.replace with a string pattern: the first occurrence only
RECURSIVE replace(_, _, _)
replace(str, pattern, replacement) ==
    IF Len(str) < Len(pattern) THEN str
    ELSE IF SubSeq(str, 1, Len(pattern)) = pattern
         THEN replacement \o SubSeq(str, Len(pattern) + 1, Len(str))
    ELSE <<Head(str)>> \o replace(Tail(str), pattern, replacement)

\* convertOsuMods
convertOsuMods(mods) ==
    LET sortedMods == sortOsuMods(mods)
        p0 == Join(sortedMods)
        p1 == replace(p0, OsuMod.NC, OsuMod.DT)
        p2 == replace(p1, OsuMod.NF, <<>>)
        p3 == replace(p2, OsuMod.SO, <<>>)
        p4 == replace(p3, OsuMod.SD, <<>>)
        p5 == replace(p4, OsuMod.PF, <<>>)
        pMods == IF p5 = <<>> THEN NM ELSE p5
    IN  stringToMORMod(pMods)

\* the modifiers whose presence the conversion is to ignore
Ignored == {OsuMod.NF, OsuMod.SO, OsuMod.SD, OsuMod.PF}

\* how often token t occurs in mods
Count(mods, t) == Cardinality({i \in 1 .. Len(mods) : mods[i] = t})

\* the permutations of 1 .. n
Orders(n) == {p \in [1 .. n -> 1 .. n] : \A i, j \in 1 .. n : p[i] = p[j] => i = j}

\* mods and other are both converted; relation tells how other was made of mods
Converted(other, relation) ==
    /\ conv.relation = "none"
    /\ conv' = [conv EXCEPT !.other = other, !.relation = relation,
                            !.key = convertOsuMods(conv.mods),
                            !.otherKey = convertOsuMods(other)]
    /\ UNCHANGED <<wrapperVars, callVars, histVars, jobVars, expiryVars, tables, api,
                   run, seen, userVars, tr>>

\* convertOsuMods on a list and on one of its permutations
ConvertPermuted ==
    \E p \in Orders(Len(conv.mods)) :
        Converted([i \in 1 .. Len(conv.mods) |-> conv.mods[p[i]]], "permuted")

\* convertOsuMods on a list and on the list with one ignored modifier, which it
\* does not have, put in somewhere
ConvertAdded ==
    \E t \in Ignored, i \in 0 .. Len(conv.mods) :
        /\ Count(conv.mods, t) = 0
        /\ Converted(SubSeq(conv.mods, 1, i) \o <<t>> \o
                     SubSeq(conv.mods, i + 1, Len(conv.mods)), "added")

\* convertOsuMods on a list and on the list without an ignored modifier it has once
ConvertRemoved ==
    \E t \in Ignored :
        /\ Count(conv.mods, t) = 1
        /\ Converted(SelectSeq(conv.mods, LAMBDA mod : mod # t), "removed")

\* convertOsuMods on a list with NC and on the list with DT in place of NC
ConvertNightcore ==
    /\ Count(conv.mods, OsuMod.NC) > 0
    /\ Converted([i \in 1 .. Len(conv.mods) |->
                     IF conv.mods[i] = OsuMod.NC THEN OsuMod.DT ELSE conv.mods[i]],
                 "nightcore")

\* every list of at most MaxMods tokens is an argument
InitMods ==
    /\ cooldownMs = OSU_API_COOLDOWN_MS(0)
    /\ InitWrapper
    /\ InitJobManager(0)
    /\ InitExpiry(0)
    /\ conv \in {[NoConv EXCEPT !.mods = mods] : mods \in ModLists}
    /\ tr = NoTr
    /\ InitNoUsers
    /\ tables = {}
    /\ api = [id \in ScoreIDs |-> Missing]
    /\ run = Idle
    /\ seen = NoSeen

NextMods ==
    \/ ConvertPermuted
    \/ ConvertAdded
    \/ ConvertRemoved
    \/ ConvertNightcore

SpecMods == InitMods /\ [][NextMods]_vars

\* C11: a list of modifier tokens and any permutation of it convert to the same
\* outcome: the same partition key, or both fail.
C11_OrderIndependent ==
    conv.relation = "permuted" => conv.key = conv.otherKey

\* C11 witness: a list of two different tokens, given in another order than
\* modOrder's, was converted to a key next to a permutation of it
C11_Witness ==
    /\ conv.relation = "permuted"
    /\ conv.key.ok
    /\ conv.other # conv.mods
    /\ Len(conv.mods) = MaxMods
    /\ sortOsuMods(conv.mods) # conv.mods

\* C12: the empty list converts to NM; adding or removing one of NF, SO, SD, PF
\* (present at most once) and putting DT for NC do not change the outcome.
C12_IgnoredModsAndNightcore ==
    /\ (conv.relation # "none" /\ conv.mods = <<>>) => conv.key = stringToMORMod(NM)
    /\ conv.relation \in {"added", "removed", "nightcore"} => conv.key = conv.otherKey

\* C12 witness: a key other than NM came out with and without an ignored modifier
C12_Witness ==
    /\ conv.relation \in {"added", "removed"}
    /\ conv.key.ok
    /\ conv.otherKey.ok
    /\ conv.key.value # NM

\* C13: what convertOsuMods returns is a member of MORMod; anything else is an error.
C13_KeyInMORMod ==
    (conv.relation # "none" /\ conv.key.ok) => conv.key.value \in MORMod

\* C13 witness: a list of MaxMods tokens was converted to a key that is not the
\* list's tokens one after the other
C13_Witness ==
    /\ conv.relation # "none"
    /\ conv.key.ok
    /\ conv.key.value \in MORMod
    /\ Len(conv.mods) = MaxMods
    /\ conv.key.value # Join(conv.mods)

(***************************************************************************)
(* DatabaseManager.  A score is modelled by its scoreID, its mods and its  *)
(* date; the other columns are stored and compared like date.              *)
(***************************************************************************)

\* operations of DatabaseManager called on their own in one behaviour
MaxOps == 3
\* procedures of DatabaseUpdater started in one behaviour
MaxRuns == 2

\* osuScore.created_at
Dates == {1, 2}

\* osuScore.mods of the scores of the model's osu!API: DT changes the star
\* rating, NC is converted to DT, RX has no MORMod
ScoreMods == {<<>>, <<OsuMod.DT>>, <<OsuMod.NC>>, <<RX>>}

\* the tables that hold the rows of the model's scores, in the order of enum
\* MORMod (`for (const key in MORMod)`; the other tables stay empty)
Partitions == <<NM, OsuMod.DT>>

\* type MORScore
MORScores == [scoreID : ScoreIDs, mods : {Join(mods) : mods \in ScoreMods}, date : Dates]

\* mutant: mods.match(/.{1,3}/g) || []
RECURSIVE modStringToArray_Threes(_)
modStringToArray_Threes(mods) ==
    IF Len(mods) <= 3
    THEN (IF mods = <<>> THEN <<>> ELSE <<mods>>)
    ELSE <<SubSeq(mods, 1, 3)>> \o modStringToArray_Threes(SubSeq(mods, 4, Len(mods)))

\* modStringToArray: mods.match(/.{1,2}/g) || []
RECURSIVE modStringToArray(_)
modStringToArray(mods) ==
    IF Len(mods) <= 2
    THEN (IF mods = <<>> THEN <<>> ELSE <<mods>>)
    ELSE <<SubSeq(mods, 1, 2)>> \o modStringToArray(SubSeq(mods, 3, Len(mods)))

\* mutant: the table is named by the mods as they are stored
ScoreTable_Uncanonical(score) ==
    [ok |-> TRUE, value |-> IF score.mods = <<>> THEN NM ELSE score.mods]

\* insertScore, updateScore: the table of the statement,
\*   ${convertOsuMods(modStringToArray(score[MORScoreKey.MODS]))}
ScoreTable(score) == convertOsuMods(modStringToArray(score.mods))

\* the row of score in table
Row(table, score) ==
    [table |-> table, scoreID |-> score.scoreID, mods |-> score.mods, date |-> score.date]

\* scoreExistsInTable: SELECT COUNT(*) ... WHERE scoreID = ?, count > 0
scoreExistsInTable(scoreID, tableName) ==
    \E row \in tables : row.table = tableName /\ row.scoreID = scoreID

\* mutant: INSERT OR REPLACE
Inserted_Replacing(tableName, score) ==
    {row \in tables : ~(row.table = tableName /\ row.scoreID = score.scoreID)}
        \cup {Row(tableName, score)}

\* mutant: the table's other rows are dropped by the INSERT
Inserted_Alone(tableName, score) ==
    {row \in tables : row.table # tableName} \cup {Row(tableName, score)}

\* the rows after INSERT INTO tableName: scoreID is the PRIMARY KEY, a second
\* row with it fails with a UNIQUE error and changes nothing
Inserted(tableName, score) ==
    IF scoreExistsInTable(score.scoreID, tableName)
    THEN tables
    ELSE tables \cup {Row(tableName, score)}

\* mutant: nothing is updated
Updated_Nothing(tableName, score) == tables

\* mutant: the new values are stored as a row of their own
Updated_Adding(tableName, score) == tables \cup {Row(tableName, score)}

\* the rows after UPDATE tableName SET ... WHERE scoreID = ?
Updated(tableName, score) ==
    {IF row.table = tableName /\ row.scoreID = score.scoreID
     THEN Row(tableName, score) ELSE row : row \in tables}

\* mutant: DELETE FROM tableName WHERE scoreID != ?
Removed_Others(scoreID, tableName) ==
    {row \in tables : ~(row.table = tableName /\ row.scoreID # scoreID)}

\* mutant: nothing is deleted
Removed_Nothing(scoreID, tableName) == tables

\* mutant: DELETE FROM tableName
Removed_WholeTable(scoreID, tableName) == {row \in tables : row.table # tableName}

\* the rows after DELETE FROM tableName WHERE scoreID = ?
Removed(scoreID, tableName) ==
    {row \in tables : ~(row.table = tableName /\ row.scoreID = scoreID)}

\* getTableScores: SELECT * FROM tableName
getTableScores(tableName) == {row \in tables : row.table = tableName}

\* mutant: every row of the table counts as a duplicate
getDuplicateScores_All(tableName) == {row \in tables : row.table = tableName}

\* getDuplicateScores: the rows of the table that equal another row of it in
\* every column but scoreID
getDuplicateScores(tableName) ==
    {t1 \in getTableScores(tableName) :
        \E t2 \in getTableScores(tableName) :
            /\ t1.mods = t2.mods
            /\ t1.date = t2.date
            /\ t1.scoreID # t2.scoreID}

\* an operation of DatabaseManager called on its own has settled; seen keeps
\* what it was called with and how its promise settled
Settled(op, score, tableName, outcome) ==
    [NoSeen EXCEPT !.runs = seen.runs + 1, !.op = op, !.score = score,
                   !.table = tableName, !.outcome = outcome]

\* the variables no operation of DatabaseManager or DatabaseUpdater changes
restVars == <<wrapperVars, callVars, histVars, jobVars, expiryVars, conv, tr, userVars>>

\* insertScore(score)
insertScore(score) ==
    /\ run.proc = "idle"
    /\ seen.runs < MaxOps
    /\ LET t == ScoreTable(score)
       IN  IF t.ok
           THEN /\ tables' = Inserted(t.value, score)
                /\ seen' = Settled("insertScore", score, t.value, "resolved")
           ELSE /\ tables' = tables
                /\ seen' = Settled("insertScore", score, <<>>, "rejected")
    /\ UNCHANGED <<restVars, api, run>>

\* updateScore(score)
updateScore(score) ==
    /\ run.proc = "idle"
    /\ seen.runs < MaxOps
    /\ LET t == ScoreTable(score)
       IN  IF t.ok
           THEN /\ tables' = Updated(t.value, score)
                /\ seen' = Settled("updateScore", score, t.value, "resolved")
           ELSE /\ tables' = tables
                /\ seen' = Settled("updateScore", score, <<>>, "rejected")
    /\ UNCHANGED <<restVars, api, run>>

\* removeScore(scoreID, tableName)
removeScore(scoreID, tableName) ==
    /\ run.proc = "idle"
    /\ seen.runs < MaxOps
    /\ tables' = Removed(scoreID, tableName)
    /\ seen' = Settled("removeScore", [scoreID |-> scoreID], tableName, "resolved")
    /\ UNCHANGED <<restVars, api, run>>

\* DatabaseManager on an empty database file
InitDb ==
    /\ cooldownMs = OSU_API_COOLDOWN_MS(0)
    /\ InitWrapper
    /\ InitJobManager(0)
    /\ InitExpiry(0)
    /\ InitSync

NextDb ==
    \/ \E score \in MORScores : insertScore(score)
    \/ \E score \in MORScores : updateScore(score)
    \/ \E scoreID \in ScoreIDs, i \in 1 .. Len(Partitions) : removeScore(scoreID, Partitions[i])

SpecDb == InitDb /\ [][NextDb]_vars

(***************************************************************************)
(* DatabaseUpdater: getNewScores                                           *)
(***************************************************************************)

\* longest list of scores the four getUserScores calls for one user return together
MaxFetched == 3

\* getAutotrackUserIDs(): the tracked users
TrackedUsers == <<1, 2>>

\* what the osu!API may hold under a score id
ApiScores == [found : {TRUE}, mods : ScoreMods, date : Dates] \cup {Missing}

\* the Score object the osu!API returns for scoreID
OsuScore(scoreID) ==
    [id |-> scoreID, mods |-> api[scoreID].mods, created_at |-> api[scoreID].date]

\* stringToOsuMod: the member of OsuMod equal to str, or a TypeError
stringToOsuMod(str) ==
    IF \E k \in DOMAIN OsuMod : OsuMod[k] = str
    THEN [ok |-> TRUE, value |-> str]
    ELSE TypeError

\* affectsStarRating
affectsStarRating(mods) ==
    \E i \in 1 .. Len(mods) :
        mods[i] \in {OsuMod.DT, OsuMod.HR, OsuMod.EZ, OsuMod.HT, OsuMod.FL}

\* osuScoreToMORScore: the MORScore made of osuScore (once the star rating is known)
osuScoreToMORScore(osuScore) ==
    [scoreID |-> osuScore.id, mods |-> Join(osuScore.mods), date |-> osuScore.created_at]

\* a procedure of DatabaseUpdater starts
Started(proc) ==
    /\ run.proc = "idle"
    /\ seen.runs < MaxRuns
    /\ seen' = [NoSeen EXCEPT !.runs = seen.runs + 1, !.op = proc, !.outcome = "running",
                              !.stored = IF proc = "updateScores" THEN tables ELSE {}]

\* a procedure of DatabaseUpdater ends: its promise resolves (done, returned) or
\* rejects (TypeError, apiError)
Finished(outcome, cause, left) ==
    /\ run' = Idle
    /\ seen' = [seen EXCEPT !.outcome = outcome, !.cause = cause, !.left = left]

\* the sequences that list the members of the finite set S once each
SeqsOf(S) ==
    {q \in [1 .. Cardinality(S) -> S] : \A i, j \in 1 .. Cardinality(S) : q[i] = q[j] => i = j}

\* getNewScores() is called: getNumScores, getAutotrackUserIDs
getNewScores ==
    /\ Started("getNewScores")
    /\ run' = [proc |-> "getNewScores", users |-> TrackedUsers, items |-> <<>>,
               keys |-> <<>>, key |-> <<>>]
    /\ UNCHANGED <<restVars, tables, api>>

\* the next user: the four getUserScores calls return, together, the scores ids
\* name; the loop over [...userTops, ...userFirsts, ...userRecents, ...userPinned]
\* starts
FetchUserScores ==
    \E n \in 0 .. MaxFetched :
        \E ids \in [1 .. n -> {id \in ScoreIDs : api[id].found}] :
            /\ run.proc = "getNewScores"
            /\ run.items = <<>>
            /\ run.users # <<>>
            /\ run' = [run EXCEPT !.users = Tail(@),
                                  !.items = [i \in 1 .. n |-> OsuScore(ids[i])]]
            /\ seen' = [seen EXCEPT !.repeated = @ \cup
                          {[scoreID |-> ids[i], table |-> convertOsuMods(api[ids[i]].mods).value] :
                              i \in {i \in 1 .. n :
                                        /\ convertOsuMods(api[ids[i]].mods).ok
                                        /\ \E j \in 1 .. n : j # i /\ ids[j] = ids[i]}}]
            /\ UNCHANGED <<restVars, tables, api>>

\* one of the four getUserScores calls returns undefined (404): spreading it
\* throws a TypeError
FetchUserScoresNotFound ==
    /\ run.proc = "getNewScores"
    /\ run.items = <<>>
    /\ run.users # <<>>
    /\ Finished("TypeError", "listNotFound", Len(run.users))
    /\ UNCHANGED <<restVars, tables, api>>

\* the score at the head of the loop has mods without a MORMod: convertOsuMods
\* throws, the catch block logs and returns
NewScoreUnknownMods ==
    /\ run.proc = "getNewScores"
    /\ run.items # <<>>
    /\ ~convertOsuMods(Head(run.items).mods).ok
    /\ Finished("returned", "unknownMods", Len(run.items) - 1 + Len(run.users))
    /\ UNCHANGED <<restVars, tables, api>>

\* the score at the head of the loop is in its table already
NewScoreExists ==
    /\ run.proc = "getNewScores"
    /\ run.items # <<>>
    /\ LET userScore == Head(run.items)
           t == convertOsuMods(userScore.mods)
       IN  /\ t.ok
           /\ scoreExistsInTable(userScore.id, t.value)
    /\ run' = [run EXCEPT !.items = Tail(@)]
    /\ UNCHANGED <<restVars, tables, api, seen>>

\* the score at the head of the loop is not in its table: osuScoreToMORScore
\* (with the beatmap attributes, if its mods change the star rating), insertScore
NewScoreInsert ==
    /\ run.proc = "getNewScores"
    /\ run.items # <<>>
    /\ LET userScore == Head(run.items)
           t == convertOsuMods(userScore.mods)
           dbScore == osuScoreToMORScore(userScore)
       IN  /\ t.ok
           /\ ~scoreExistsInTable(userScore.id, t.value)
           /\ affectsStarRating(userScore.mods) =>
                  \A i \in 1 .. Len(userScore.mods) : stringToOsuMod(userScore.mods[i]).ok
           /\ ScoreTable(dbScore).ok
           /\ tables' = Inserted(ScoreTable(dbScore).value, dbScore)
    /\ run' = [run EXCEPT !.items = Tail(@)]
    /\ UNCHANGED <<restVars, api, seen>>

\* the score at the head of the loop is not in its table and its mods change the
\* star rating; getBeatmapAttributes returns undefined (404) and
\* difficultyAttributes.attributes throws a TypeError
NewScoreAttributesNotFound ==
    /\ run.proc = "getNewScores"
    /\ run.items # <<>>
    /\ LET userScore == Head(run.items)
           t == convertOsuMods(userScore.mods)
       IN  /\ t.ok
           /\ ~scoreExistsInTable(userScore.id, t.value)
           /\ affectsStarRating(userScore.mods)
    /\ Finished("TypeError", "attributesNotFound", Len(run.items) - 1 + Len(run.users))
    /\ UNCHANGED <<restVars, tables, api>>

\* both loops are through: getNumScores, the promise resolves
getNewScoresDone ==
    /\ run.proc = "getNewScores"
    /\ run.items = <<>>
    /\ run.users = <<>>
    /\ Finished("done", "none", 0)
    /\ UNCHANGED <<restVars, tables, api>>

(***************************************************************************)
(* DatabaseUpdater: removeDuplicateScores, updateScores                    *)
(***************************************************************************)

\* what getScore returned for the row dbScore, as seen keeps it
Lookup(dbScore, answer) == [row |-> dbScore, answer |-> answer]

\* !defined(osuScore): the osu!API does not store the score
Unstored(scoreID) == ~api[scoreID].found

\* dbScore[MORScoreKey.DATE] !== osuScore.created_at
Diverges(dbScore, scoreID) == dbScore.date # OsuScore(scoreID).created_at

\* removeDuplicateScores() is called
removeDuplicateScores ==
    /\ Started("removeDuplicateScores")
    /\ run' = [proc |-> "removeDuplicateScores", users |-> <<>>, items |-> <<>>,
               keys |-> Partitions, key |-> <<>>]
    /\ UNCHANGED <<restVars, tables, api>>

\* the next table: getDuplicateScores(key); its rows come in some order
NextDuplicates ==
    /\ run.proc = "removeDuplicateScores"
    /\ run.items = <<>>
    /\ run.keys # <<>>
    /\ \E rows \in SeqsOf(getDuplicateScores(Head(run.keys))) :
        /\ run' = [run EXCEPT !.keys = Tail(@), !.key = Head(run.keys), !.items = rows]
        /\ seen' = [seen EXCEPT !.dups = @ \cup getDuplicateScores(Head(run.keys))]
        /\ UNCHANGED <<restVars, tables, api>>

\* getScore returns undefined (404) for the row at the head of the loop: removeScore
DuplicateNotFound ==
    /\ run.proc = "removeDuplicateScores"
    /\ run.items # <<>>
    /\ LET dbScore == Head(run.items)
       IN  /\ Unstored(dbScore.scoreID)
           /\ tables' = Removed(dbScore.scoreID, run.key)
           /\ seen' = [seen EXCEPT !.lookups = @ \cup {Lookup(dbScore, "notFound")}]
    /\ run' = [run EXCEPT !.items = Tail(@)]
    /\ UNCHANGED <<restVars, api>>

\* getScore returns a score of another date for the row at the head of the loop:
\* removeScore
DuplicateDiverged ==
    /\ run.proc = "removeDuplicateScores"
    /\ run.items # <<>>
    /\ LET dbScore == Head(run.items)
       IN  /\ ~Unstored(dbScore.scoreID)
           /\ Diverges(dbScore, dbScore.scoreID)
           /\ tables' = Removed(dbScore.scoreID, run.key)
           /\ seen' = [seen EXCEPT !.lookups = @ \cup {Lookup(dbScore, "diverged")}]
    /\ run' = [run EXCEPT !.items = Tail(@)]
    /\ UNCHANGED <<restVars, api>>

\* getScore returns a score of the same date for the row at the head of the
\* loop: the row stays
DuplicateKept ==
    /\ run.proc = "removeDuplicateScores"
    /\ run.items # <<>>
    /\ LET dbScore == Head(run.items)
       IN  /\ ~Unstored(dbScore.scoreID)
           /\ ~Diverges(dbScore, dbScore.scoreID)
           /\ seen' = [seen EXCEPT !.lookups = @ \cup {Lookup(dbScore, "same")}]
    /\ run' = [run EXCEPT !.items = Tail(@)]
    /\ UNCHANGED <<restVars, tables, api>>

\* every table is through: the promise resolves
removeDuplicateScoresDone ==
    /\ run.proc = "removeDuplicateScores"
    /\ run.items = <<>>
    /\ run.keys = <<>>
    /\ Finished("done", "none", 0)
    /\ UNCHANGED <<restVars, tables, api>>

\* updateScores() is called: getNumScores
updateScores ==
    /\ Started("updateScores")
    /\ run' = [proc |-> "updateScores", users |-> <<>>, items |-> <<>>,
               keys |-> Partitions, key |-> <<>>]
    /\ UNCHANGED <<restVars, tables, api>>

\* the next table: getTableScores(key); its rows come in some order
NextTableScores ==
    /\ run.proc = "updateScores"
    /\ run.items = <<>>
    /\ run.keys # <<>>
    /\ \E rows \in SeqsOf(getTableScores(Head(run.keys))) :
        /\ run' = [run EXCEPT !.keys = Tail(@), !.key = Head(run.keys), !.items = rows]
        /\ UNCHANGED <<restVars, tables, api, seen>>

\* getScore returns undefined (404) for the row at the head of the loop: removeScore
UpdateNotFound ==
    /\ run.proc = "updateScores"
    /\ run.items # <<>>
    /\ LET score == Head(run.items)
       IN  /\ Unstored(score.scoreID)
           /\ tables' = Removed(score.scoreID, run.key)
           /\ seen' = [seen EXCEPT !.lookups = @ \cup {Lookup(score, "notFound")}]
    /\ run' = [run EXCEPT !.items = Tail(@)]
    /\ UNCHANGED <<restVars, api>>

\* getScore returns the score: osuScoreToMORScore (with the beatmap attributes, if
\* its mods change the star rating), updateScore; convertOsuMods throws in
\* updateScore if the mods have no MORMod
UpdateFound ==
    /\ run.proc = "updateScores"
    /\ run.items # <<>>
    /\ ~Unstored(Head(run.items).scoreID)
    /\ LET score == Head(run.items)
           dbScore == osuScoreToMORScore(OsuScore(score.scoreID))
       IN  IF ScoreTable(dbScore).ok
           THEN /\ tables' = Updated(ScoreTable(dbScore).value, dbScore)
                /\ seen' = [seen EXCEPT !.lookups = @ \cup {Lookup(score, "found")},
                                        !.wrote = @ \cup {[row |-> score, score |-> dbScore]}]
                /\ run' = [run EXCEPT !.items = Tail(@)]
           ELSE /\ Finished("TypeError", "unknownMods", Len(run.items) - 1)
                /\ tables' = tables
    /\ UNCHANGED <<restVars, api>>

\* getScore returns a score whose mods change the star rating;
\* getBeatmapAttributes returns undefined (404) and
\* difficultyAttributes.attributes throws a TypeError
UpdateAttributesNotFound ==
    /\ run.proc = "updateScores"
    /\ run.items # <<>>
    /\ ~Unstored(Head(run.items).scoreID)
    /\ affectsStarRating(OsuScore(Head(run.items).scoreID).mods)
    /\ Finished("TypeError", "attributesNotFound", Len(run.items) - 1)
    /\ UNCHANGED <<restVars, tables, api>>

\* every table is through: the promise resolves
updateScoresDone ==
    /\ run.proc = "updateScores"
    /\ run.items = <<>>
    /\ run.keys = <<>>
    /\ Finished("done", "none", 0)
    /\ UNCHANGED <<restVars, tables, api>>

\* the call of the osu!API the running procedure is about to make (getUserScores,
\* getBeatmapAttributes, getScore) throws: the procedure's promise rejects
ApiError ==
    /\ \/ run.proc = "getNewScores" /\ run.items = <<>> /\ run.users # <<>>
       \/ /\ run.proc = "getNewScores"
          /\ run.items # <<>>
          /\ convertOsuMods(Head(run.items).mods).ok
          /\ ~scoreExistsInTable(Head(run.items).id, convertOsuMods(Head(run.items).mods).value)
          /\ affectsStarRating(Head(run.items).mods)
       \/ run.proc \in {"removeDuplicateScores", "updateScores"} /\ run.items # <<>>
    /\ Finished("apiError", "apiError", Len(run.items) + Len(run.users))
    /\ UNCHANGED <<restVars, tables, api>>

\* the osu!API stores the score no longer (the player has overwritten it)
RemoteRemoved(scoreID) ==
    /\ api[scoreID].found
    /\ api' = [api EXCEPT ![scoreID] = Missing]
    /\ UNCHANGED <<restVars, tables, run, seen>>

\* the osu!API has the score under another date
RemoteRedated(scoreID) ==
    \E date \in Dates :
        /\ api[scoreID].found
        /\ date # api[scoreID].date
        /\ api' = [api EXCEPT ![scoreID].date = date]
        /\ UNCHANGED <<restVars, tables, run, seen>>

\* DatabaseManager on an empty database file, DatabaseUpdater idle, the osu!API
\* holding any scores
InitSyncEngine ==
    /\ cooldownMs = OSU_API_COOLDOWN_MS(0)
    /\ InitWrapper
    /\ InitJobManager(0)
    /\ InitExpiry(0)
    /\ conv = NoConv
    /\ tr = NoTr
    /\ InitNoUsers
    /\ tables = {}
    /\ api \in [ScoreIDs -> ApiScores]
    /\ run = Idle
    /\ seen = NoSeen

NextSync ==
    \/ getNewScores
    \/ FetchUserScores
    \/ FetchUserScoresNotFound
    \/ NewScoreUnknownMods
    \/ NewScoreExists
    \/ NewScoreInsert
    \/ NewScoreAttributesNotFound
    \/ getNewScoresDone
    \/ removeDuplicateScores
    \/ NextDuplicates
    \/ DuplicateNotFound
    \/ DuplicateDiverged
    \/ DuplicateKept
    \/ removeDuplicateScoresDone
    \/ updateScores
    \/ NextTableScores
    \/ UpdateNotFound
    \/ UpdateFound
    \/ UpdateAttributesNotFound
    \/ updateScoresDone
    \/ ApiError
    \/ \E scoreID \in ScoreIDs : RemoteRemoved(scoreID)
    \/ \E scoreID \in ScoreIDs : RemoteRedated(scoreID)

SpecSync == InitSyncEngine /\ [][NextSync]_vars

(***************************************************************************)
(* Properties of DatabaseManager and DatabaseUpdater                       *)
(***************************************************************************)

\* C14: every stored row lies in the table named by the conversion of the mods
\* it stores.
C14_RowsInCanonicalTable ==
    \A row \in tables :
        LET t == convertOsuMods(modStringToArray(row.mods))
        IN  t.ok /\ t.value = row.table

\* C14 witness: updateScore has rewritten a row to mods that are not its table's name
C14_Witness ==
    /\ seen.op = "updateScore"
    /\ seen.outcome = "resolved"
    /\ seen.score.mods = OsuMod.NC
    /\ Row(seen.table, seen.score) \in tables
    /\ \E row \in tables : row.table # seen.table

\* C15: insertScore of a score whose id its table does not have adds exactly the
\* score's row to the table; insertScore of a score whose id the table has
\* resolves and changes no row.
C15_InsertOnceThenNoOp ==
    [][(seen'.runs = seen.runs + 1 /\ seen'.op = "insertScore" /\ ScoreTable(seen'.score).ok) =>
          LET score == seen'.score
              tableName == ScoreTable(score).value
          IN  /\ seen'.outcome = "resolved"
              /\ IF scoreExistsInTable(score.scoreID, tableName)
                 THEN tables' = tables
                 ELSE tables' = tables \cup {Row(tableName, score)}]_vars

\* C15 witness: insertScore has resolved for an id whose row in the table holds
\* other values than the score it was called with
C15_Witness ==
    /\ seen.op = "insertScore"
    /\ seen.outcome = "resolved"
    /\ \E row \in tables :
           /\ row.table = seen.table
           /\ row.scoreID = seen.score.scoreID
           /\ row # Row(seen.table, seen.score)

\* the rows of table tableName with id scoreID
RowsOf(scoreID, tableName) ==
    {row \in tables : row.table = tableName /\ row.scoreID = scoreID}

\* C16 (as claimed): after a run of getNewScores that did not fail, a score id
\* fetched more than once for a user has exactly one row in its table.
C16_RepeatedScoreStoredOnce ==
    (run.proc = "idle" /\ seen.op = "getNewScores" /\ seen.outcome \in {"done", "returned"}) =>
        \A r \in seen.repeated : Cardinality(RowsOf(r.scoreID, r.table)) = 1

\* C17 (as claimed): a fetched score whose mods have no MORMod is skipped, and
\* getNewScores goes on to every score and user left.
C17_UnknownModsSkipsOneScore ==
    (seen.op = "getNewScores" /\ seen.cause = "unknownMods") => seen.left = 0

\* C18 (as claimed): a beatmap-attribute lookup that returns 'not found' does
\* not end getNewScores or updateScores.
C18_AttributesNotFoundSkipsOneScore ==
    seen.op \in {"getNewScores", "updateScores"} => seen.cause # "attributesNotFound"

\* a and b are rows of one table that differ in scoreID only
DuplicatePair(a, b) ==
    /\ a.table = b.table
    /\ a.scoreID # b.scoreID
    /\ a.mods = b.mods
    /\ a.date = b.date

\* removeDuplicateScores has run to its end
DedupOver == run.proc = "idle" /\ seen.op = "removeDuplicateScores"

\* C19: two rows that differ in scoreID only, both looked up as 'not found', are
\* both gone after removeDuplicateScores, which resolved.
C19_BothMissingBothRemoved ==
    DedupOver =>
        \A a, b \in seen.dups :
            (/\ DuplicatePair(a, b)
             /\ Lookup(a, "notFound") \in seen.lookups
             /\ Lookup(b, "notFound") \in seen.lookups)
            => /\ RowsOf(a.scoreID, a.table) = {}
               /\ RowsOf(b.scoreID, b.table) = {}
               /\ seen.outcome = "done"

\* C19 witness: removeDuplicateScores is over with both rows of a pair looked up
\* as 'not found'
C19_Witness ==
    /\ DedupOver
    /\ \E a, b \in seen.dups :
           /\ DuplicatePair(a, b)
           /\ Lookup(a, "notFound") \in seen.lookups
           /\ Lookup(b, "notFound") \in seen.lookups

\* C20 (as claimed): when one row of a pair is looked up as 'not found', both
\* rows of the pair are gone after removeDuplicateScores, whatever the lookup of
\* the other row returned.
C20_OneMissingBothRemoved ==
    (DedupOver /\ seen.outcome = "done") =>
        \A a, b \in seen.dups :
            (DuplicatePair(a, b) /\ Lookup(a, "notFound") \in seen.lookups)
            => RowsOf(a.scoreID, a.table) = {} /\ RowsOf(b.scoreID, b.table) = {}

\* C20 (amended): after removeDuplicateScores, a row of a pair is gone if its own
\* lookup returned 'not found' or another date, and still stored if its own
\* lookup returned the same date.
C20_EachRowByItsOwnLookup ==
    (DedupOver /\ seen.outcome = "done") =>
        \A a \in seen.dups :
            /\ (Lookup(a, "notFound") \in seen.lookups \/ Lookup(a, "diverged") \in seen.lookups)
                   => RowsOf(a.scoreID, a.table) = {}
            /\ Lookup(a, "same") \in seen.lookups => a \in tables

\* C20 witness: of a pair, the row looked up as 'not found' is gone and the row
\* looked up with the same date is stored
C20_Witness ==
    /\ DedupOver
    /\ seen.outcome = "done"
    /\ \E a, b \in seen.dups :
           /\ DuplicatePair(a, b)
           /\ Lookup(a, "notFound") \in seen.lookups
           /\ Lookup(b, "same") \in seen.lookups
           /\ RowsOf(a.scoreID, a.table) = {}
           /\ b \in tables

\* C21: a row removeDuplicateScores has looked up and found with another date
\* than it stores is in its table no longer.
C21_DivergedDuplicateRemoved ==
    seen.op = "removeDuplicateScores" =>
        \A l \in seen.lookups :
            l.answer = "diverged" => l.row \notin tables /\ RowsOf(l.row.scoreID, l.row.table) = {}

\* C21 witness: removeDuplicateScores is over and has found a duplicate row under
\* another date, while the osu!API holds the score
C21_Witness ==
    /\ DedupOver
    /\ seen.outcome = "done"
    /\ \E l \in seen.lookups :
           /\ l.answer = "diverged"
           /\ l.row \in seen.dups
           /\ api[l.row.scoreID].found

\* C22: when updateScores has resolved, every row stored when it was called is
\* gone if its lookup returned 'not found', and otherwise the row of its id in
\* its table holds the values of the MORScore translated from what the lookup
\* returned.
C22_StoredRowsRefreshed ==
    (run.proc = "idle" /\ seen.op = "updateScores" /\ seen.outcome = "done") =>
        \A r \in seen.stored :
            \/ /\ Lookup(r, "notFound") \in seen.lookups
               /\ RowsOf(r.scoreID, r.table) = {}
            \/ \E w \in seen.wrote :
                   /\ w.row = r
                   /\ w.score.scoreID = r.scoreID
                   /\ RowsOf(r.scoreID, r.table) = {Row(r.table, w.score)}

\* C22 witness: updateScores has resolved after it rewrote one row with other
\* values and removed another
C22_Witness ==
    /\ run.proc = "idle"
    /\ seen.op = "updateScores"
    /\ seen.outcome = "done"
    /\ \E w \in seen.wrote : Row(w.row.table, w.score) # w.row
    /\ \E r \in seen.stored : Lookup(r, "notFound") \in seen.lookups

\* C29: while getNewScores runs no stored row is deleted or changed: every row
\* stored before a step is stored, the same, after it.
C29_GetNewScoresKeepsRows ==
    [][(run.proc = "getNewScores" \/ run'.proc = "getNewScores") =>
          tables \subseteq tables']_vars

\* C29 witness: getNewScores has resolved after it fetched twice a score whose
\* stored row holds another date than the osu!API
C29_Witness ==
    /\ run.proc = "idle"
    /\ seen.op = "getNewScores"
    /\ seen.outcome = "done"
    /\ \E r \in seen.repeated :
           \E row \in RowsOf(r.scoreID, r.table) :
               api[r.scoreID].found /\ row.date # api[r.scoreID].date

\* C30: removeDuplicateScores adds no row, and deletes a row only if the row has
\* a duplicate among the rows it read from the table and the row's own lookup
\* returned 'not found' or another date.
C30_OnlyDivergedDuplicatesRemoved ==
    [][(run.proc = "removeDuplicateScores") =>
          /\ tables' \subseteq tables
          /\ \A row \in tables \ tables' :
                 /\ \E other \in seen'.dups : DuplicatePair(row, other)
                 /\ Unstored(row.scoreID) \/ Diverges(row, row.scoreID)]_vars

\* C30 witness: removeDuplicateScores has resolved and left a row that has no
\* duplicate and that the osu!API does not hold
C30_Witness ==
    /\ DedupOver
    /\ seen.outcome = "done"
    /\ \E row \in tables :
           /\ row \notin seen.dups
           /\ Unstored(row.scoreID)

(***************************************************************************)
(* The delay after the n-th retryable failure of a makeRequest call        *)
(***************************************************************************)

\* min(64000, 2^n * 1000) ms
BackoffFloor(n) ==
    IF Ms(Pow2(n) * 1000) < Ms(64000) THEN Ms(Pow2(n) * 1000) ELSE Ms(64000)

\* C28 (as claimed): the delay d slept after the n-th retryable failure of a call
\* (n from 0) satisfies min(64000, 2^n * 1000) <= d < min(64000, 2^n * 1000) + 1000,
\* whatever the base cooldown.
C28_DelayInBackoffWindow ==
    \A c \in Callers :
        obs[c].lastN >= 1 =>
            /\ BackoffFloor(obs[c].lastN - 1) <= obs[c].lastSleep
            /\ obs[c].lastSleep < BackoffFloor(obs[c].lastN - 1) + Ms(1000)

\* C28 (amended): with a base cooldown below 64000 ms the delay d slept after the
\* n-th retryable failure satisfies
\* min(64000, 2^n * 1000) <= d <= min(64000, 2^n * 1000) + 1000, and d reaches the
\* upper end only under the cap, from n = 7 on; with a base cooldown of 64000 ms
\* or more, 64000 <= d <= 65000 for every n.
C28_DelayInWindowOrAtCap ==
    \A c \in Callers :
        obs[c].lastN >= 1 =>
            LET n == obs[c].lastN - 1
                d == obs[c].lastSleep
            IN  IF cooldownMs >= Ms(64000)
                THEN Ms(64000) <= d /\ d <= Ms(64000 + 1000)
                ELSE /\ BackoffFloor(n) <= d
                     /\ d <= BackoffFloor(n) + Ms(1000)
                     /\ d = BackoffFloor(n) + Ms(1000) => n >= 7

\* C28 witness: from a base cooldown above the cap, the delay slept after the
\* failure 0 is the cap with its jitter
C28_Witness ==
    \E c \in Callers :
        /\ cooldownMs = Ms(70000)
        /\ obs[c].lastN = 1
        /\ obs[c].lastSleep >= Ms(64000)
        /\ obs[c].lastSleep <= Ms(64000 + 1000)

(***************************************************************************)
(* A failed job and the other jobs                                         *)
(***************************************************************************)

\* C26: when the callback of a job fails, the job's timer is cancelled, and a
\* cancelled job never fires again; a timer is cancelled by the failure of its
\* own callback only, and every job that is still scheduled fires when its rule
\* matches.
C26_FailedJobCancelledOthersFire ==
    [][\A j \in Jobs :
          /\ (running[j] /\ pc[j] = "failed" /\ ~running'[j]) => ~scheduled'[j]
          /\ ~scheduled[j] => (~scheduled'[j] /\ ~running'[j])
          /\ (scheduled[j] /\ ~scheduled'[j]) => (running[j] /\ pc[j] = "failed")
          /\ (ticks' = ticks + 1 /\ scheduled[j] /\ ~running[j] /\ Rule(j, clock'))
                 => running'[j]]_vars

\* C26 witness: at a minute that matches the rules of two jobs, the one whose
\* callback failed at an earlier minute has not fired and the other one has
C26_Witness ==
    \E j, k \in Jobs :
        /\ j # k
        /\ ~scheduled[j] /\ ~running[j] /\ Rule(j, clock)
        /\ cancelledAt[j] >= 0 /\ cancelledAt[j] < ticks
        /\ scheduled[k] /\ running[k] /\ Rule(k, clock)
        /\ ~Rule(k, (clock + MinutesPerDay - 1) % MinutesPerDay)

(***************************************************************************)
(* DatabaseManager: the USERS table and the scores of a user.              *)
(* DatabaseUpdater: updateUsers.  Of a score row this part keeps the table,*)
(* the scoreID, the userID and the pp.                                     *)
(***************************************************************************)

\* most rows of a score table when updateUsers is first called
MaxRows == 3

\* operations on users and runs of updateUsers explored in one behaviour
MaxUserRuns == 2

\* slice(0, 3): the places of a table that are counted
TopPlaces == 3

\* the users stored at the start, and a user that is not
UserIDs == {1, 2, 3}
OtherUser == 4

\* the pp of the scores
PPs == {1, 2}

\* Object.keys(MORMod).length
NumMORMods == Cardinality(MORMod)

\* the top1s / top2s / top3s a caller hands to insertUser and updateUser
TopValues == {-1, 0, NumMORMods, NumMORMods + 1}

\* a row of a score table.  The rows of a table come in the order they were
\* inserted in; scoreID numbers them in that order.
ScoreRow(table, scoreID, userID, pp) ==
    [table |-> table, scoreID |-> scoreID, userID |-> userID, pp |-> pp]

\* a row of USERS
MORUser(userID, top1s, top2s, top3s, autotrack) ==
    [userID |-> userID, top1s |-> top1s, top2s |-> top2s, top3s |-> top3s,
     autotrack |-> autotrack]

\* the scores stored before updateUsers is called: up to MaxRows rows of NM
Boards ==
    UNION {{{ScoreRow(NM, i, q[i].userID, q[i].pp) : i \in 1 .. n} :
               q \in [1 .. n -> [userID : UserIDs, pp : PPs]]} : n \in 0 .. MaxRows}

\* user 1 holds the best score and user 2 the second best of every table, user 3
\* the third best of two
FullBoard ==
    {ScoreRow(key, 1, 1, 2) : key \in MORMod}
        \cup {ScoreRow(key, 2, 2, 1) : key \in MORMod}
        \cup {ScoreRow(key, 3, 3, 1) : key \in {NM, OsuMod.DT}}

\* the users as Bot.addUserCmd stored them: no top places counted yet
AddedUsers == {MORUser(u, 0, 0, 0, u # 2) : u \in UserIDs}

\* mutant: the CHECK constraints on the three counters are dropped
CheckTops_Unchecked(user) == TRUE

\* CHECK (top1s >= 0 AND top1s <= ${Object.keys(MORMod).length}), and the same
\* for top2s and top3s
CheckTops(user) ==
    /\ user.top1s >= 0 /\ user.top1s <= NumMORMods
    /\ user.top2s >= 0 /\ user.top2s <= NumMORMods
    /\ user.top3s >= 0 /\ user.top3s <= NumMORMods

\* the rows of USERS after INSERT INTO USERS: userID is the PRIMARY KEY
InsertedUser(user) ==
    IF \E u \in users : u.userID = user.userID THEN users ELSE users \cup {user}

\* the rows of USERS after UPDATE USERS SET ... WHERE userID = ?
UpdatedUser(user) ==
    {IF u.userID = user.userID THEN user ELSE u : u \in users}

\* the rows of USERS after DELETE FROM USERS WHERE userID = ?
RemovedUser(userID) == {u \in users : u.userID # userID}

\* the rows of a set of score rows in the order of their scoreID
RECURSIVE InOrder(_)
InOrder(rows) ==
    IF rows = {} THEN <<>>
    ELSE LET r == CHOOSE r \in rows : \A q \in rows : r.scoreID <= q.scoreID
         IN  <<r>> \o InOrder(rows \ {r})

\* sort((a, b) => b.pp - a.pp): x goes behind the rows of at least its pp
InsertByPP(sorted, x) ==
    LET k == Cardinality({i \in 1 .. Len(sorted) : sorted[i].pp >= x.pp})
    IN  SubSeq(sorted, 1, k) \o <<x>> \o SubSeq(sorted, k + 1, Len(sorted))

RECURSIVE SortByPP(_)
SortByPP(scores) ==
    IF scores = <<>> THEN <<>>
    ELSE InsertByPP(SortByPP(SubSeq(scores, 1, Len(scores) - 1)), scores[Len(scores)])

\* modsToScores[key]: getTableScores(key), sorted by pp, slice(0, 3)
TopScores(key) ==
    LET scores == SortByPP(InOrder(getTableScores(key)))
    IN  SubSeq(scores, 1, IF Len(scores) < TopPlaces THEN Len(scores) ELSE TopPlaces)

\* top1s, top2s, top3s (i = 1, 2, 3) of the loop over Object.keys(modsToScores)
TopCount(modsToScores, userID, i) ==
    Cardinality({key \in MORMod :
                    /\ Len(modsToScores[key]) >= i
                    /\ modsToScores[key][i].userID = userID})

\* mutant: the flag is taken from the default of a new user
Autotrack_Default(dbUser) == TRUE

\* [MORUserKey.AUTOTRACK]: (dbUser as MORUser)[MORUserKey.AUTOTRACK]
Autotrack(dbUser) == dbUser.autotrack

\* the user ids in ascending order
RECURSIVE IdsInOrder(_)
IdsInOrder(ids) ==
    IF ids = {} THEN <<>>
    ELSE LET u == CHOOSE u \in ids : \A v \in ids : u <= v
         IN  <<u>> \o IdsInOrder(ids \ {u})

\* response.users of getUsers(ids): the users the osu!API knows; it leaves out
\* a user it does not return (a restricted or deleted account)
Replies(ids) == {ids} \cup {ids \ {u} : u \in ids}

\* at most this many ids go into one getUsers request
ChunkSize == 50

\* mutant: the loop steps over one user more than a chunk holds
NextChunkStart_Skipping(i) == i + ChunkSize + 1

\* for (let i = 0; i < dbUsers.length; i += 50)
NextChunkStart(i) == i + ChunkSize

\* dbUsers.map((x) => x.userID.toString()).slice(i, i + 50)
userIDChunk(ids, i) ==
    SubSeq(ids, i + 1, IF i + ChunkSize < Len(ids) THEN i + ChunkSize ELSE Len(ids))

\* the variables no operation on users changes
calmVars == <<wrapperVars, callVars, histVars, jobVars, expiryVars, conv, tr, api, run, seen>>

\* an operation of DatabaseManager on users has settled
USettled(op, userID, outcome) ==
    [NoUSeen EXCEPT !.runs = useen.runs + 1, !.op = op, !.userID = userID,
                    !.outcome = outcome, !.before = users, !.scores = tables]

\* updateUsers ends: its promise resolves (done) or rejects
UFinished(outcome) ==
    /\ urun' = UIdle
    /\ useen' = [useen EXCEPT !.outcome = outcome]

\* updateUsers() is called: getUsers(), then for every key of MORMod
\* getTableScores(key), sort, slice
updateUsers ==
    /\ urun.proc = "idle"
    /\ useen.runs < MaxUserRuns
    /\ urun' = [proc |-> "updateUsers",
                step |-> IF users = {} THEN "loop" ELSE "getUsers",
                dbUsers |-> users,
                ids |-> IdsInOrder({u.userID : u \in users}),
                i |-> 0,
                modsToScores |-> [key \in MORMod |-> TopScores(key)],
                osuUsers |-> <<>>]
    /\ useen' = [NoUSeen EXCEPT !.runs = useen.runs + 1, !.op = "updateUsers",
                                !.outcome = "running", !.before = users,
                                !.scores = tables]
    /\ UNCHANGED <<calmVars, tables, users, queue>>

\* this._osu.getUsers(userIDChunk): OsuWrapper.getUsers throws a TypeError for
\* more than 50 ids, else the request is sent and answered
GetUsersReply ==
    /\ urun.proc = "updateUsers"
    /\ urun.step = "getUsers"
    /\ LET chunk == userIDChunk(urun.ids, urun.i)
       IN  IF Len(chunk) > ChunkSize
           THEN UFinished("TypeError")
           ELSE \E ids \in Replies({chunk[k] : k \in 1 .. Len(chunk)}) :
                   /\ urun' = [urun EXCEPT !.step = "loop", !.osuUsers = IdsInOrder(ids)]
                   /\ useen' = [useen EXCEPT !.replied = @ \cup ids,
                                             !.requests = Append(@, chunk)]
    /\ UNCHANGED <<calmVars, tables, users, queue>>

\* this._osu.getUsers(userIDChunk) throws
GetUsersError ==
    /\ urun.proc = "updateUsers"
    /\ urun.step = "getUsers"
    /\ UFinished("apiError")
    /\ UNCHANGED <<calmVars, tables, users, queue>>

\* the next osuUser of the chunk: its places are counted and updateUser is called
UpdateNextUser ==
    /\ urun.proc = "updateUsers"
    /\ urun.step = "loop"
    /\ urun.osuUsers # <<>>
    /\ LET id == Head(urun.osuUsers)
           dbUser == CHOOSE x \in urun.dbUsers : x.userID = id
           updatedUser == MORUser(id, TopCount(urun.modsToScores, id, 1),
                                  TopCount(urun.modsToScores, id, 2),
                                  TopCount(urun.modsToScores, id, 3),
                                  Autotrack(dbUser))
       IN  IF CheckTops(updatedUser)
           THEN /\ users' = UpdatedUser(updatedUser)
                /\ urun' = [urun EXCEPT !.osuUsers = Tail(@)]
                /\ useen' = useen
           ELSE /\ users' = users
                /\ UFinished("rejected")
    /\ UNCHANGED <<calmVars, tables, queue>>

\* the chunk is through and users are left: the next chunk
NextChunk ==
    /\ urun.proc = "updateUsers"
    /\ urun.step = "loop"
    /\ urun.osuUsers = <<>>
    /\ NextChunkStart(urun.i) < Len(urun.ids)
    /\ urun' = [urun EXCEPT !.step = "getUsers", !.i = NextChunkStart(urun.i)]
    /\ UNCHANGED <<calmVars, tables, users, queue, useen>>

\* the last chunk is through: the promise resolves
updateUsersDone ==
    /\ urun.proc = "updateUsers"
    /\ urun.step = "loop"
    /\ urun.osuUsers = <<>>
    /\ NextChunkStart(urun.i) >= Len(urun.ids)
    /\ UFinished("done")
    /\ UNCHANGED <<calmVars, tables, users, queue>>

\* insertUser(user): a CHECK that fails rejects, a UNIQUE error resolves
insertUser(user) ==
    /\ urun.proc = "idle"
    /\ useen.runs < MaxUserRuns
    /\ IF CheckTops(user)
       THEN /\ users' = InsertedUser(user)
            /\ useen' = USettled("insertUser", user.userID, "resolved")
       ELSE /\ users' = users
            /\ useen' = USettled("insertUser", user.userID, "rejected")
    /\ UNCHANGED <<calmVars, tables, queue, urun>>

\* updateUser(user)
updateUser(user) ==
    /\ urun.proc = "idle"
    /\ useen.runs < MaxUserRuns
    /\ IF CheckTops(user)
       THEN /\ users' = UpdatedUser(user)
            /\ useen' = USettled("updateUser", user.userID, "resolved")
       ELSE /\ users' = users
            /\ useen' = USettled("updateUser", user.userID, "rejected")
    /\ UNCHANGED <<calmVars, tables, queue, urun>>

\* removeUser(userID): the statement has run when the promise resolves
removeUser(userID) ==
    /\ urun.proc = "idle"
    /\ useen.runs < MaxUserRuns
    /\ users' = RemovedUser(userID)
    /\ useen' = USettled("removeUser", userID, "resolved")
    /\ UNCHANGED <<calmVars, tables, queue, urun>>

\* the keys of MORMod, one after the other
RECURSIVE KeysInOrder(_)
KeysInOrder(keys) ==
    IF keys = {} THEN <<>>
    ELSE LET key == CHOOSE key \in keys : TRUE
         IN  <<key>> \o KeysInOrder(keys \ {key})

\* DELETE FROM key WHERE userID = ?, for every key of MORMod
DeleteStatements(userID) ==
    LET keys == KeysInOrder(MORMod)
    IN  [i \in 1 .. Len(keys) |-> [table |-> keys[i], userID |-> userID]]

\* removeUserScores(userID): this._database.run(...) is called for every key,
\* which hands the statement to the database, and resolve() is called after the
\* loop, not in the callbacks of run: the promise resolves with the statements
\* still to be run
removeUserScores(userID) ==
    /\ urun.proc = "idle"
    /\ useen.runs < MaxUserRuns
    /\ queue' = queue \o DeleteStatements(userID)
    /\ useen' = USettled("removeUserScores", userID, "resolved")
    /\ UNCHANGED <<calmVars, tables, users, urun>>

\* the rows the statement st deletes
Deleted(st) == {row \in tables : row.table = st.table /\ row.userID = st.userID}

\* the database runs the statements handed to it, in the order it got them: here
\* those up to the first one that deletes a row
RunStatements ==
    /\ queue # <<>>
    /\ LET hits == {i \in 1 .. Len(queue) : Deleted(queue[i]) # {}}
           k == IF hits = {} THEN Len(queue)
                ELSE CHOOSE i \in hits : \A j \in hits : i <= j
       IN  /\ tables' = tables \ Deleted(queue[k])
           /\ queue' = SubSeq(queue, k + 1, Len(queue))
    /\ UNCHANGED <<calmVars, users, urun, useen>>

\* the variables of the other parts, as in their initial states
InitCalm ==
    /\ cooldownMs = OSU_API_COOLDOWN_MS(0)
    /\ InitWrapper
    /\ InitJobManager(0)
    /\ InitExpiry(0)
    /\ conv = NoConv
    /\ tr = NoTr
    /\ api = [id \in ScoreIDs |-> Missing]
    /\ run = Idle
    /\ seen = NoSeen

\* updateUsers on the users the Bot added and the scores fetched since
InitRanks ==
    /\ InitCalm
    /\ tables \in Boards
    /\ users = AddedUsers
    /\ queue = <<>>
    /\ urun = UIdle
    /\ useen = NoUSeen

\* getNewScores, running between or beside the runs of updateUsers, stores a new
\* score of a tracked user (insertScore)
NewScoreStored ==
    \E userID \in UserIDs, pp \in PPs :
        LET n == Cardinality(getTableScores(NM))
        IN  /\ n < MaxRows
            /\ tables' = tables \cup {ScoreRow(NM, n + 1, userID, pp)}
            /\ UNCHANGED <<calmVars, users, queue, urun, useen>>

NextRanks ==
    \/ updateUsers
    \/ GetUsersReply
    \/ GetUsersError
    \/ UpdateNextUser
    \/ updateUsersDone

\* updateUsers while scores come in
NextRanking ==
    \/ NextRanks
    \/ NewScoreStored

SpecRanks == InitRanks /\ [][NextRanking]_vars

\* the numbers of stored users: none, one, a full chunk, one more than a chunk
UserCounts == {0, 1, ChunkSize, ChunkSize + 1}

\* updateUsers on any such number of users the Bot added
InitChunks ==
    /\ InitCalm
    /\ tables = {}
    /\ \E n \in UserCounts : users = {MORUser(u, 0, 0, 0, TRUE) : u \in 1 .. n}
    /\ queue = <<>>
    /\ urun = UIdle
    /\ useen = NoUSeen

NextChunks ==
    \/ NextRanks
    \/ NextChunk

SpecChunks == InitChunks /\ [][NextChunks]_vars

\* the users handed to insertUser and updateUser
MORUsers ==
    {MORUser(userID, n, n, n, autotrack) :
        userID \in {1, OtherUser}, n \in TopValues, autotrack \in BOOLEAN}

\* the operations on users, on an empty database and on one that holds scores
\* in every table
InitUsers ==
    /\ InitCalm
    /\ tables \in {{}, FullBoard}
    /\ users = AddedUsers
    /\ queue = <<>>
    /\ urun = UIdle
    /\ useen = NoUSeen

NextUsers ==
    \/ NextRanks
    \/ \E user \in MORUsers : insertUser(user)
    \/ \E user \in MORUsers : updateUser(user)
    \/ \E userID \in {3, OtherUser} : removeUser(userID)
    \/ \E userID \in {3, OtherUser} : removeUserScores(userID)
    \/ RunStatements

SpecUsers == InitUsers /\ [][NextUsers]_vars

(***************************************************************************)
(* Properties of the operations on users                                   *)
(***************************************************************************)

\* the place of the row r among the rows of its table: by pp, the higher first,
\* and among rows of one pp the one stored first
Place(r, rows) ==
    1 + Cardinality({q \in rows :
                        /\ q.table = r.table
                        /\ q.pp > r.pp \/ (q.pp = r.pp /\ q.scoreID < r.scoreID)})

\* the number of tables in which a row of the user holds place i
PlacesHeld(userID, i, rows) ==
    Cardinality({key \in MORMod :
                    \E r \in rows : r.table = key /\ r.userID = userID /\ Place(r, rows) = i})

\* updateUsers has resolved
RecountOver == urun.proc = "idle" /\ useen.op = "updateUsers" /\ useen.outcome = "done"

\* C23 (as claimed): when updateUsers has resolved, top1s, top2s and top3s of
\* every stored user are the numbers of tables in which a score of the user
\* holds the first, second and third place by pp.
C23_CountsArePlacesHeld ==
    RecountOver =>
        \A u \in users :
            /\ u.top1s = PlacesHeld(u.userID, 1, useen.scores)
            /\ u.top2s = PlacesHeld(u.userID, 2, useen.scores)
            /\ u.top3s = PlacesHeld(u.userID, 3, useen.scores)

\* C24: from the call of updateUsers on, every stored user has the autotrack
\* flag it had when updateUsers was called.
C24_AutotrackKept ==
    useen.op = "updateUsers" =>
        \A u \in users :
            \E v \in useen.before : v.userID = u.userID /\ v.autotrack = u.autotrack

\* C24 witness: updateUsers has resolved and has rewritten, with other counts, a
\* user whose flag is set and a user whose flag is not
C24_Witness ==
    /\ RecountOver
    /\ \E u1, u2 \in users :
           /\ u1.autotrack /\ ~u2.autotrack
           /\ u1 \notin useen.before
           /\ u2 \notin useen.before

C27_ResolvedMeansScoresGone ==
    /\ (useen.op = "removeUserScores" /\ useen.outcome = "resolved") =>
           \A row \in tables : row.userID # useen.userID
    /\ (useen.op = "removeUser" /\ queue = <<>>) => tables = useen.scores

(***************************************************************************)
(* Further properties of the procedures of DatabaseUpdater                 *)
(***************************************************************************)

\* the (table, scoreID) pairs of a set of rows
StoredKeys(rows) == {<<row.table, row.scoreID>> : row \in rows}

\* the rows of a set of rows stored under a (table, scoreID) pair
StoredUnder(rows, key) == {row \in rows : <<row.table, row.scoreID>> = key}

\* C37: no step of updateScores adds a record: the (table, scoreID) pairs stored
\* after the step are among the pairs stored before it, and no pair has more
\* rows than before.
C37_UpdateScoresAddsNoRow ==
    [][(run.proc = "updateScores") =>
          /\ StoredKeys(tables') \subseteq StoredKeys(tables)
          /\ \A key \in StoredKeys(tables') :
                 Cardinality(StoredUnder(tables', key)) <= Cardinality(StoredUnder(tables, key))]_vars

\* C37 witness: updateScores has resolved, has rewritten a row with other values
\* and has removed another, and the pairs left are among those stored at its call
C37_Witness ==
    /\ run.proc = "idle" /\ seen.op = "updateScores" /\ seen.outcome = "done"
    /\ \E row \in tables : row \notin seen.stored
    /\ StoredKeys(tables) \subseteq StoredKeys(seen.stored)
    /\ StoredKeys(tables) # StoredKeys(seen.stored)

\* the sum of f[u] over the users u of a set
RECURSIVE SumOver(_, _)
SumOver(f, us) ==
    IF us = {} THEN 0
    ELSE LET u == CHOOSE u \in us : TRUE
         IN  f[u] + SumOver(f, us \ {u})

\* the tables that hold at least n rows
TablesOfSize(n) == {key \in MORMod : Cardinality(getTableScores(key)) >= n}

\* C38 (as claimed): when updateUsers has resolved, the top1s of the stored users
\* add up to at most the number of tables that hold a row, the top2s to at most
\* the number of tables that hold two rows, the top3s to at most the number of
\* tables that hold three.
C38_CountsSumWithinTables ==
    RecountOver =>
        /\ SumOver([u \in users |-> u.top1s], users) <= Cardinality(TablesOfSize(1))
        /\ SumOver([u \in users |-> u.top2s], users) <= Cardinality(TablesOfSize(2))
        /\ SumOver([u \in users |-> u.top3s], users) <= Cardinality(TablesOfSize(3))

\* the requests of the run of updateUsers that carry the id of the user
RequestsOf(userID) ==
    {k \in 1 .. Len(useen.requests) :
        \E n \in 1 .. Len(useen.requests[k]) : useen.requests[k][n] = userID}

\* C31: every getUsers request of updateUsers carries at most 50 ids, no user is
\* in two of them, and when updateUsers has resolved every user stored at its
\* call is in exactly one.
C31_ChunksOfFiftyCoverUsers ==
    useen.op = "updateUsers" =>
        /\ \A k \in 1 .. Len(useen.requests) :
               /\ Len(useen.requests[k]) <= 50
               /\ \A m, n \in 1 .. Len(useen.requests[k]) :
                      useen.requests[k][m] = useen.requests[k][n] => m = n
        /\ \A u \in useen.before : Cardinality(RequestsOf(u.userID)) <= 1
        /\ RecountOver => \A u \in useen.before : Cardinality(RequestsOf(u.userID)) = 1

\* C31 witness: updateUsers has resolved for 51 stored users with two requests,
\* of 50 ids and of one
C31_Witness ==
    /\ RecountOver
    /\ Cardinality(useen.before) = 51
    /\ Len(useen.requests) = 2
    /\ Len(useen.requests[1]) = 50
    /\ Len(useen.requests[2]) = 1

\* C33 (as claimed): the mods of every row osuScoreToMORScore has produced are the
\* key convertOsuMods returns for the mods the osu!API reports for the score.
C33_StoredModsAreCanonicalKey ==
    \A row \in tables :
        api[row.scoreID].found =>
            LET key == convertOsuMods(OsuScore(row.scoreID).mods)
            IN  key.ok => row.mods = key.value

(***************************************************************************)
(* Common.ts: osuScoreToMORScore and its star rating                       *)
(***************************************************************************)

\* osuScore.beatmap.difficulty_rating, and attributes.star_rating of the answers
DifficultyRatings == {3, 4}
StarRatings == {5, 6}

\* the variables osuScoreToMORScore does not change
translatorVars ==
    <<wrapperVars, callVars, histVars, jobVars, expiryVars, conv, tables, api, run, seen,
      userVars>>

\* osuScoreToMORScore is called with mods that do not change the star rating:
\* starRating = osuScore.beatmap.difficulty_rating
TranslatePlain ==
    /\ tr.pc = "start"
    /\ ~affectsStarRating(tr.mods)
    /\ tr' = [tr EXCEPT !.pc = "returned", !.starRating = tr.base]
    /\ UNCHANGED translatorVars

\* the mods change the star rating and one of them is no OsuMod:
\* mods.map((x) => stringToOsuMod(x)) throws before getBeatmapAttributes is called
TranslateUnknownMod ==
    /\ tr.pc = "start"
    /\ affectsStarRating(tr.mods)
    /\ \E i \in 1 .. Len(tr.mods) : ~stringToOsuMod(tr.mods[i]).ok
    /\ tr' = [tr EXCEPT !.pc = "failed", !.cause = "unknownMod"]
    /\ UNCHANGED translatorVars

\* the mods change the star rating: osu.getBeatmapAttributes is called
TranslateLookup ==
    /\ tr.pc = "start"
    /\ affectsStarRating(tr.mods)
    /\ \A i \in 1 .. Len(tr.mods) : stringToOsuMod(tr.mods[i]).ok
    /\ tr' = [tr EXCEPT !.pc = "lookup", !.requests = @ + 1]
    /\ UNCHANGED translatorVars

\* getBeatmapAttributes returns the attributes
LookupReturns ==
    /\ tr.pc = "lookup"
    /\ \E stars \in StarRatings :
           tr' = [tr EXCEPT !.pc = "returned", !.stars = stars, !.starRating = stars]
    /\ UNCHANGED translatorVars

\* getBeatmapAttributes returns undefined (404): difficultyAttributes.attributes
\* throws a TypeError
LookupNotFound ==
    /\ tr.pc = "lookup"
    /\ tr' = [tr EXCEPT !.pc = "failed", !.cause = "attributesNotFound"]
    /\ UNCHANGED translatorVars

\* getBeatmapAttributes throws
LookupError ==
    /\ tr.pc = "lookup"
    /\ tr' = [tr EXCEPT !.pc = "failed", !.cause = "apiError"]
    /\ UNCHANGED translatorVars

\* osuScoreToMORScore is called with a score of any mods of at most MaxMods tokens
InitTranslate ==
    /\ cooldownMs = OSU_API_COOLDOWN_MS(0)
    /\ InitWrapper
    /\ InitJobManager(0)
    /\ InitExpiry(0)
    /\ conv = NoConv
    /\ InitNoUsers
    /\ tables = {}
    /\ api = [id \in ScoreIDs |-> Missing]
    /\ run = Idle
    /\ seen = NoSeen
    /\ tr \in {[NoTr EXCEPT !.mods = mods, !.base = base, !.pc = "start"] :
                  mods \in ModLists, base \in DifficultyRatings}

NextTranslate ==
    \/ TranslatePlain
    \/ TranslateUnknownMod
    \/ TranslateLookup
    \/ LookupReturns
    \/ LookupNotFound
    \/ LookupError

SpecTranslate == InitTranslate /\ [][NextTranslate]_vars

\* the mods hold one of DT, HR, EZ, HT, FL
ChangesStarRating(mods) ==
    \E i \in 1 .. Len(mods) : mods[i] \in {<<"D", "T">>, <<"H", "R">>, <<"E", "Z">>,
                                           <<"H", "T">>, <<"F", "L">>}

\* C32 (as claimed): once osuScoreToMORScore has returned or thrown, it has called
\* getBeatmapAttributes once if the mods hold one of DT, HR, EZ, HT, FL, and the
\* MORScore it returns has the star rating of the answer; else it has made no
\* call and has returned a MORScore with the difficulty rating of the beatmap.
C32_OneLookupIffStarRatingChanges ==
    tr.pc \in {"returned", "failed"} =>
        IF ChangesStarRating(tr.mods)
        THEN /\ tr.requests = 1
             /\ tr.pc = "returned" => tr.starRating = tr.stars
        ELSE /\ tr.requests = 0
             /\ tr.pc = "returned"
             /\ tr.starRating = tr.base

\* the same for the scores all of whose mods are members of OsuMod
C32_OneLookupForKnownMods ==
    (\A i \in 1 .. Len(tr.mods) : stringToOsuMod(tr.mods[i]).ok) =>
        C32_OneLookupIffStarRatingChanges

(***************************************************************************)
(* Common.ts: convertOsuMods on the modifier sets of the game              *)
(***************************************************************************)

\* the modifier sets a score can have: at most one of EZ and HR, HD or not, at
\* most one of DT, NC and HT, FL or not, and any of NF, SO, SD, PF
PlayableSets ==
    LET m == OsuMod
    IN  {a \cup b \cup c \cup d \cup e :
            a \in {{}, {m.EZ}, {m.HR}}, b \in {{}, {m.HD}},
            c \in {{}, {m.DT}, {m.NC}, {m.HT}}, d \in {{}, {m.FL}},
            e \in SUBSET Ignored}

\* osuScore.mods for a set of modifiers: the osu!API lists them in an order of its
\* own, here modOrder read backwards
ListOf(set) ==
    SelectSeq([i \in 1 .. Len(modOrder) |-> modOrder[Len(modOrder) + 1 - i]],
              LAMBDA mod : mod \in set)

\* the modifiers of a list
SetOf(mods) == {mods[i] : i \in 1 .. Len(mods)}

\* the playable sets one modifier away from the set
Neighbours(set) ==
    {other \in PlayableSets :
        Cardinality((set \ other) \cup (other \ set)) = 1}

\* convertOsuMods on a playable set and on a set that is one modifier away or has
\* DT in the place of NC
ConvertPlayable ==
    /\ SetOf(conv.mods) \in PlayableSets
    /\ \E other \in Neighbours(SetOf(conv.mods))
                    \cup {{IF mod = OsuMod.NC THEN OsuMod.DT ELSE mod : mod \in SetOf(conv.mods)}} :
           Converted(ListOf(other), "playable")

\* every playable set is an argument
InitKeys ==
    /\ cooldownMs = OSU_API_COOLDOWN_MS(0)
    /\ InitWrapper
    /\ InitJobManager(0)
    /\ InitExpiry(0)
    /\ conv \in {[NoConv EXCEPT !.mods = ListOf(set)] : set \in PlayableSets}
    /\ tr = NoTr
    /\ InitNoUsers
    /\ tables = {}
    /\ api = [id \in ScoreIDs |-> Missing]
    /\ run = Idle
    /\ seen = NoSeen

NextKeys == ConvertPlayable

SpecKeys == InitKeys /\ [][NextKeys]_vars

\* a set without NF, SO, SD, PF and with DT in the place of NC
Normal(set) == {IF mod = <<"N", "C">> THEN <<"D", "T">> ELSE mod :
                    mod \in set \ {<<"N", "F">>, <<"S", "O">>, <<"S", "D">>, <<"P", "F">>}}

\* C35: convertOsuMods succeeds on every playable set; it gives two playable sets
\* the same key exactly when they are equal without NF, SO, SD, PF and with DT
\* in the place of NC; and every member of MORMod is the key of a playable set.
C35_PlayableSetsAndKeys ==
    conv.relation = "playable" =>
        /\ conv.key.ok
        /\ conv.otherKey.ok
        /\ (conv.key = conv.otherKey) <=> (Normal(SetOf(conv.mods)) = Normal(SetOf(conv.other)))
        /\ Neighbours(SetOf(conv.mods)) \cap {SetOf(conv.other)} = {} =>
               \A set \in PlayableSets :
                   (convertOsuMods(ListOf(set)) = conv.key)
                       <=> (Normal(set) = Normal(SetOf(conv.mods)))
        /\ conv.mods = <<>> =>
               \A key \in MORMod :
                   \E set \in PlayableSets : convertOsuMods(ListOf(set)) = stringToMORMod(key)

\* C35 witness: both sets are converted, the first has eight modifiers with NC
\* among them and the second has the same key
C35_Witness ==
    /\ conv.relation = "playable"
    /\ conv.key.ok
    /\ Len(conv.mods) = 8
    /\ OsuMod.NC \in SetOf(conv.mods)
    /\ conv.other # conv.mods
    /\ conv.key = conv.otherKey

\* C36: a list of modifiers that convertOsuMods converts is given the same key
\* when it is joined to a string, as osuScoreToMORScore stores it, and split by
\* modStringToArray, as insertScore reads it; and every member of MORMod, split
\* by modStringToArray, is converted to itself.
C36_SplitOfJoinedKeepsKey ==
    conv.relation # "none" =>
        /\ conv.key.ok => convertOsuMods(modStringToArray(Join(conv.mods))) = conv.key
        /\ conv.otherKey.ok => convertOsuMods(modStringToArray(Join(conv.other))) = conv.otherKey
        /\ conv.mods = <<>> =>
               \A key \in MORMod : convertOsuMods(modStringToArray(key)) = stringToMORMod(key)

\* C36 witness: a list of two modifiers with NC is converted, to a key that is not
\* the joined list, and the joined list is split into the list again
C36_Witness ==
    /\ conv.relation = "nightcore"
    /\ conv.key.ok
    /\ Len(conv.mods) = 2
    /\ conv.key.value # Join(conv.mods)
    /\ modStringToArray(Join(conv.mods)) = conv.mods
    /\ convertOsuMods(modStringToArray(Join(conv.mods))) = conv.key

(***************************************************************************)
(* OsuWrapper.makeRequest: does a call end?  The 401 branch counts nothing, *)
(* so the number of 401 answers is not bounded here; every refresh of the  *)
(* token succeeds, and at most MaxRetries attempts of a call are answered  *)
(* with 429, 5xx or a failed fetch.                                        *)
(***************************************************************************)

\* statusCode === 401, any number of times in one call
AnotherUnauthorized(c) ==
    \E o \in Outcomes :
        /\ pc[c] = "fetch"
        /\ Branch(o) = "unauthorized"
        /\ pc' = [pc EXCEPT ![c] = "tokSleep"]
        /\ tokDelayMs' = [tokDelayMs EXCEPT ![c] = InitialDelay(c)]
        /\ tokRetries' = [tokRetries EXCEPT ![c] = 0]
        /\ obs' = [Seen(c, o) EXCEPT ![c].n401 = IF @ < Max401 THEN @ + 1 ELSE @]
        /\ rejected' = rejected \cup {reqToken[c]}
        /\ UNCHANGED <<wrapperVars, delayMs, retries, reqToken, result, callNo, resent,
                       otherVars>>

\* getAccessToken returns a token at its first attempt (the tokens are numbered
\* up to Max401 + 1, then from 1 again, and the sleeps are counted anew)
AnotherToken(c) ==
    \E s \in Statuses :
        /\ pc[c] = "tokFetch"
        /\ TokenBranch(s) = "ok"
        /\ issued' = (issued % (Max401 + 1)) + 1
        /\ accessToken' = issued'
        /\ reqToken' = [reqToken EXCEPT ![c] = issued']
        /\ pc' = [pc EXCEPT ![c] = "sleep"]
        /\ obs' = [obs EXCEPT ![c].tokStatus = s, ![c].nSleeps = 0]
        /\ UNCHANGED <<cooldownMs, delayMs, retries, tokDelayMs, tokRetries, result,
                       callNo, rejected, resent, otherVars>>

\* a step of the call of caller c
CallStep(c) ==
    \/ Sleep(c)
    \/ OnOK(c)
    \/ AnotherUnauthorized(c)
    \/ OnNotFound(c)
    \/ OnBackoff(c)
    \/ OnUnhandled(c)
    \/ TokSleep(c)
    \/ AnotherToken(c)

\* the script makes one call
OneCall ==
    /\ Call(Script, 1)
    /\ UNCHANGED otherVars

\* OsuWrapper.build() with the default cooldown
InitLive ==
    /\ cooldownMs = OSU_API_COOLDOWN_MS(0)
    /\ InitWrapper
    /\ InitJobManager(0)
    /\ InitExpiry(0)
    /\ InitSync

NextLive ==
    \/ OneCall
    \/ CallStep(Script)

\* the timers fire and every fetch is answered: a call that can take a step
\* takes one
SpecLive == InitLive /\ [][NextLive]_vars /\ WF_vars(CallStep(Script))

\* C34 (as claimed): every call of makeRequest returns or throws in the end.
C34_EveryCallEnds ==
    (pc[Script] \in {"sleep", "fetch", "tokSleep", "tokFetch"}) ~> Ended(Script)

\* the same for the calls that are answered 401 finitely many times
C34_EndsUnlessUnauthorizedForever ==
    (<>[](pc[Script] # "tokSleep")) => C34_EveryCallEnds

(***************************************************************************)
(* Bot.removeUserCmd beside DatabaseUpdater.getNewScores: both run in one   *)
(* process on one database file, and each gives way at its awaits.         *)
(***************************************************************************)

\* the scores the osu!API lists for a user: one without mods, one with DT
UserScores(userID) ==
    <<ScoreRow(NM, 2 * userID - 1, userID, 2), ScoreRow(OsuMod.DT, 2 * userID, userID, 1)>>

\* getAutotrackUserIDs: SELECT userID FROM USERS WHERE autotrack = 1
getAutotrackUserIDs == IdsInOrder({u.userID : u \in {x \in users : x.autotrack}})

\* the variables getNewScores does not change
trackVars == <<wrapperVars, callVars, histVars, jobVars, expiryVars, conv, tr, api, userVars>>

\* getNewScores() is called: const userIDs = await this._dbm.getAutotrackUserIDs()
TrackUsers ==
    /\ Started("getNewScores")
    /\ run' = [Idle EXCEPT !.proc = "track", !.users = getAutotrackUserIDs]
    /\ UNCHANGED <<trackVars, tables>>

\* for (const userID of userIDs): the four getUserScores calls answer
TrackFetched ==
    /\ run.proc = "track"
    /\ run.items = <<>>
    /\ run.users # <<>>
    /\ run' = [run EXCEPT !.users = Tail(@), !.items = UserScores(Head(run.users))]
    /\ UNCHANGED <<trackVars, tables, seen>>

\* the next userScore: scoreExistsInTable, and insertScore if it does not
TrackInserted ==
    /\ run.proc = "track"
    /\ run.items # <<>>
    /\ LET userScore == Head(run.items)
       IN  tables' = IF \E row \in tables : row.table = userScore.table
                                            /\ row.scoreID = userScore.scoreID
                     THEN tables
                     ELSE tables \cup {userScore}
    /\ run' = [run EXCEPT !.items = Tail(@)]
    /\ UNCHANGED <<trackVars, seen>>

\* every user is through: the promise resolves
TrackDone ==
    /\ run.proc = "track"
    /\ run.items = <<>>
    /\ run.users = <<>>
    /\ Finished("done", "none", 0)
    /\ UNCHANGED <<trackVars, tables>>

\* the Bot has added users 1, 2, 3; the scores of user 3 may be stored already
InitTrack ==
    /\ InitCalm
    /\ tables \in {{}, {UserScores(3)[1]}}
    /\ users = AddedUsers
    /\ queue = <<>>
    /\ urun = UIdle
    /\ useen = NoUSeen

NextTrack ==
    \/ TrackUsers
    \/ TrackFetched
    \/ TrackInserted
    \/ TrackDone
    \/ \E userID \in {1, 3} : removeUser(userID)
    \/ \E userID \in {1, 3} : removeUserScores(userID)
    \/ RunStatements

SpecTrack == InitTrack /\ [][NextTrack]_vars

\* removeUser(userID) and then removeUserScores(userID) have resolved, and the
\* database has run every statement handed to it
RemovedWithScores(userID) ==
    /\ useen.op = "removeUserScores"
    /\ useen.userID = userID
    /\ \A u \in useen.before : u.userID # userID
    /\ queue = <<>>

\* C39 (as claimed): when a user has been removed together with the scores and a
\* run of getNewScores has ended since, no table holds a score of the user.
C39_NoScoreOfRemovedUser ==
    \A userID \in UserIDs :
        (RemovedWithScores(userID) /\ run.proc = "idle" /\ seen.op = "getNewScores"
                                   /\ seen.outcome = "done")
            => \A row \in tables : row.userID # userID

\* the same for the removals made while getNewScores is not running
C39_NoScoreOfUserRemovedAtRest ==
    \A userID \in UserIDs :
        (RemovedWithScores(userID) /\ run.proc = "idle" /\ seen.op = "none")
            => \A row \in tables : row.userID # userID

====
